---- MODULE Spec2Model ----
(***************************************************************************)
(* A model of jobsdb (src/jobsdb/jobsdb.go): a job queue kept in numbered  *)
(* pairs of database tables (datasets), with a background loop that adds   *)
(* datasets, compacts them and journals every structural operation.        *)
(*                                                                         *)
(* The database is modelled by the tables that exist and their rows:       *)
(*   jobsT[idx]    the rows of <prefix>_jobs_<idx>        (a set, keyed by *)
(*                 job_id)                                                 *)
(*   statusT[idx]  the rows of <prefix>_job_status_<idx>  (a sequence: the *)
(*                 BIGSERIAL id of a row is its position)                  *)
(*   jobSeq[idx]   the last value of the job_id sequence of the jobs table *)
(*   journal       the rows of <prefix>_journal                            *)
(* A dataset index "3" is the sequence <<3>>, "3_1" is <<3, 1>>.           *)
(***************************************************************************)
EXTENDS Integers, Sequences, FiniteSets, TLC

\* ------------------------------------------------------------------ bounds
\* Most jobs ever stored, and most status rows ever written by callers.
MaxJobs == 4
MaxStatusRows == 3
\* The clock runs from 1 to MaxTime.
MaxTime == 3

\* --------------------------------------------------------------- constants
\* The migration parameters of lines 159-165. Two of them are scaled down so
\* that a few jobs and status rows reach every path of the maintenance loop:
\*   maxDSSize              100000 in the source; a specification gives it
\*                          dsSizeOne (a dataset of two jobs is full) or
\*                          dsSizeTwo (a dataset of three jobs is full);
\*   jobStatusMigrateThres  5 in the source, 1 here: a dataset with more status
\*                          rows than jobs is migrated.
\* jobDoneMigrateThres = 0.8 is kept, as the fraction 4/5 (the float64 division
\* of the source compares the same way for counts this small), and so is
\* maxMigrateOnce.
jobDoneMigrateThresNum == 4
jobDoneMigrateThresDen == 5
jobStatusMigrateThres == 1
dsSizeOne == 1
dsSizeTwo == 2
maxMigrateOnce == 10

addDSOperation == "ADD_DS"
migrateCopyOperation == "MIGRATE_COPY"
migrateDelOperation == "MIGRATE_DEL"

\* validJobStates: the keys of the map, NP included.
validJobStates ==
    {"NP", "succeeded", "failed", "executing", "aborted", "waiting", "waiting_retry"}

\* CREATE TYPE job_state_type AS ENUM (...), the type of the job_state column:
\* a statement that compares the column with another name is an error.
job_state_type ==
    {"waiting", "executing", "succeeded", "waiting_retry", "failed", "aborted"}

VARIABLES
    \* the database
    jobsT, statusT, jobSeq, journal, journalSeq,
    \* HandleT
    datasetList, datasetRangeList, dsEmptyResultCache,
    dsListLock, dsMigrationLock, dsRetentionPeriod,
    \* HandleT.dbHandle: "open" after sql.Open, "closed" after Close
    dbHandle,
    \* whether the table <prefix>_journal exists
    journalTable,
    \* the constant maxDSSize, as the specification scales it
    maxDSSize,
    \* mainCheckLoop: where it is, and its local variables
    pc, loc,
    \* the API threads of the concurrent specification
    thr,
    \* the clock, the last API call's result, the failed assertion (if any)
    now, ret, panic,
    \* history: the jobs Store acknowledged (in order), the last status written per job,
    \* the number of status rows the callers wrote
    acked, lastWritten, written

dbVars == <<jobsT, statusT, jobSeq, journal, journalSeq>>
memVars == <<datasetList, datasetRangeList, dsEmptyResultCache>>
lockVars == <<dsListLock, dsMigrationLock>>
loopVars == <<pc, loc>>
histVars == <<acked, lastWritten, written>>
\* What the maintenance loop and the calls of the API leave as Setup and
\* TearDown made it.
cfgVars == <<dsRetentionPeriod, maxDSSize, dbHandle, journalTable>>
vars == <<jobsT, statusT, jobSeq, journal, journalSeq,
          datasetList, datasetRangeList, dsEmptyResultCache,
          dsListLock, dsMigrationLock, cfgVars,
          pc, loc, thr, now, ret, panic, acked, lastWritten, written>>

\* ---------------------------------------------------------------- helpers
Max(S) == CHOOSE x \in S : \A y \in S : y <= x
Min(S) == CHOOSE x \in S : \A y \in S : x <= y

RECURSIVE SortInts(_)
SortInts(S) == IF S = {} THEN <<>> ELSE <<Min(S)>> \o SortInts(S \ {Min(S)})

Range(s) == {s[i] : i \in 1..Len(s)}

\* The first n elements of s (SQL LIMIT n); n = 0 means no limit.
Limit(s, n) == IF n > 0 /\ Len(s) > n THEN SubSeq(s, 1, n) ELSE s

\* ------------------------------------------------------- dataset catalog
\* The comparator of sort.Slice in getDSList: src before dst.
RECURSIVE IndexLessFrom(_, _, _)
IndexLessFrom(src, dst, k) ==
    IF k > Len(src) THEN TRUE
    ELSE IF k > Len(dst) THEN FALSE
    ELSE IF src[k] = dst[k] THEN IndexLessFrom(src, dst, k + 1)
    ELSE src[k] < dst[k]

IndexLess(src, dst) == src # dst /\ IndexLessFrom(src, dst, 1)

RECURSIVE SortIdx(_)
SortIdx(S) ==
    IF S = {} THEN <<>>
    ELSE LET m == CHOOSE x \in S : \A y \in S \ {x} : IndexLess(x, y)
         IN <<m>> \o SortIdx(S \ {m})

\* getDSList(true): the datasets of the database in order. dnumList holds the
\* suffixes of the jobs tables; each needs its status table (assert(ok)).
getDSListOK(jt, st) == DOMAIN jt \subseteq DOMAIN st
getDSList(jt) == SortIdx(DOMAIN jt)

JobIDs(rows) == {j.job_id : j \in rows}

\* A range that takes its maximum from MIN(job_id).
rangeOf_MinAsMax(jt, ds) ==
    [minJobID |-> Min(JobIDs(jt[ds])), maxJobID |-> Min(JobIDs(jt[ds])), ds |-> ds]

\* getDSRangeList(true): one range for every dataset but the last.
rangeOf(jt, ds) ==
    [minJobID |-> Min(JobIDs(jt[ds])), maxJobID |-> Max(JobIDs(jt[ds])), ds |-> ds]

getDSRangeList(dsList, jt) ==
    [i \in 1..(Len(dsList) - 1) |-> rangeOf(jt, dsList[i])]

\* The assertions of getDSRangeList: MIN and MAX are not NULL, and each
\* minimum is above the previous maximum.
getDSRangeListOK(dsList, jt) ==
    \A i \in 1..(Len(dsList) - 1) :
        /\ jt[dsList[i]] # {}
        /\ i = 1 \/ (jt[dsList[i - 1]] # {} /\
                     Max(JobIDs(jt[dsList[i - 1]])) < Min(JobIDs(jt[dsList[i]])))

\* mapDSToLevel: the number of levels of an index and their values.
mapDSToLevel(ds) == <<Len(ds), ds>>

\* ------------------------------------------------------------ row shapes
\* A row of a jobs table (uuid, event_payload and expire_at are carried but
\* never read, and are left out) and a row of a job_status table.
JobRow(id, cv, ca) == [job_id |-> id, custom_val |-> cv, created_at |-> ca]

\* The zero value of JobT.LastJobStatus.
NoStatus ==
    [JobState |-> "", AttemptNum |-> 0, ExecTime |-> 0, RetryTime |-> 0,
     ErrorCode |-> "", ErrorResponse |-> ""]

\* rows.Scan of getProcessedJobsDS: a joined row as a JobT.
ScanJob(j, s) ==
    [JobID |-> j.job_id, CustomVal |-> j.custom_val, CreatedAt |-> j.created_at,
     LastJobStatus |->
        [JobState |-> s.job_state, AttemptNum |-> s.attempt,
         ExecTime |-> s.exec_time, RetryTime |-> s.retry_time,
         ErrorCode |-> s.error_code, ErrorResponse |-> s.error_response]]

\* rows.Scan of getUnprocessedJobsDS: LastJobStatus stays the zero value.
ScanUnprocessed(j) ==
    [JobID |-> j.job_id, CustomVal |-> j.custom_val, CreatedAt |-> j.created_at,
     LastJobStatus |-> NoStatus]

\* stmt.Exec of updateJobStatusDS: a JobStatusT as a row of job_status.
StatusRow(s) ==
    [job_id |-> s.JobID, job_state |-> s.JobState, attempt |-> s.AttemptNum,
     exec_time |-> s.ExecTime, retry_time |-> s.RetryTime,
     error_code |-> s.ErrorCode, error_response |-> s.ErrorResponse]

\* A sequence of JobT ordered by job_id, from a set of them.
SortJobs(S) ==
    LET ids == SortInts({j.JobID : j \in S})
    IN [i \in 1..Len(ids) |-> CHOOSE j \in S : j.JobID = ids[i]]

\* ----------------------------------------------------- latest status rows
\* The positions of the first row of every job.
latestIds_First(st) ==
    {i \in 1..Len(st) : \A k \in 1..(i - 1) : st[k].job_id # st[i].job_id}

\* id IN (SELECT MAX(id) FROM status GROUP BY job_id): the positions of the
\* latest row of every job.
latestIds(st) ==
    {i \in 1..Len(st) : \A k \in (i + 1)..Len(st) : st[k].job_id # st[i].job_id}

hasStatus(st, id) == \E i \in 1..Len(st) : st[i].job_id = id

latestStatus(st, id) == st[CHOOSE i \in latestIds(st) : st[i].job_id = id]

\* ------------------------------------------------------ empty-result cache
\* A clearing that always removes the whole entry of the dataset.
markClearEmptyResult_WholeEntry(cache, ds, stateFilters, customValFilters, mark) ==
    IF ~mark THEN {e \in cache : e[1] # ds}
    ELSE IF stateFilters = {} \/ customValFilters = {} THEN cache
    ELSE cache \cup {<<ds, cVal, st>> : cVal \in customValFilters, st \in stateFilters}

\* dsEmptyResultCache is the set of <<ds, customVal, state>> whose entry of the
\* nested map exists and is true: an absent entry and a false one are read the
\* same way by isEmptyResult.
markClearEmptyResult(cache, ds, stateFilters, customValFilters, mark) ==
    IF stateFilters = {} \/ customValFilters = {}
    THEN IF ~mark THEN {e \in cache : e[1] # ds} ELSE cache
    ELSE LET touched == {<<ds, cVal, st>> : cVal \in customValFilters, st \in stateFilters}
         IN IF mark THEN cache \cup touched ELSE cache \ touched

isEmptyResult(cache, ds, stateFilters, customValFilters) ==
    /\ stateFilters # {}
    /\ customValFilters # {}
    /\ \A cVal \in customValFilters : \A st \in stateFilters : <<ds, cVal, st>> \in cache

\* ---------------------------------------------------- per-dataset queries
\* The SELECT of getUnprocessedJobsDS: jobs LEFT JOIN status WHERE
\* status.job_id IS NULL, the customVal filter, ORDER BY job_id, LIMIT.
unprocessedRows(jobs, st, customValFilters) ==
    {j \in jobs : /\ ~hasStatus(st, j.job_id)
                  /\ customValFilters = {} \/ j.custom_val \in customValFilters}

getUnprocessedQuery(jobs, st, customValFilters, count) ==
    Limit(SortJobs({ScanUnprocessed(j) : j \in unprocessedRows(jobs, st, customValFilters)}),
          count)

\* getUnprocessedJobsDS: the job list and the cache it leaves.
getUnprocessedJobsDS(cache, ds, jobs, st, customValFilters, count) ==
    IF isEmptyResult(cache, ds, {"NP"}, customValFilters)
    THEN [jobs |-> <<>>, cache |-> cache]
    ELSE LET jobList == getUnprocessedQuery(jobs, st, customValFilters, count)
         IN [jobs |-> jobList,
             cache |-> IF Len(jobList) = 0
                       THEN markClearEmptyResult(cache, ds, {"NP"}, customValFilters, TRUE)
                       ELSE cache]

\* The SELECT of getProcessedJobsDS: jobs joined with their latest status row,
\* the state filter on that row; without getAll also the customVal filter and
\* retry_time < now, ORDER BY job_id, LIMIT.
processedRows(jobs, st, getAll, stateFilters, customValFilters, clock) ==
    {j \in jobs :
        /\ hasStatus(st, j.job_id)
        /\ LET s == latestStatus(st, j.job_id)
           IN /\ stateFilters = {} \/ s.job_state \in stateFilters
              /\ getAll \/ (/\ customValFilters = {} \/ j.custom_val \in customValFilters
                            /\ s.retry_time < clock)}

getProcessedQuery(jobs, st, getAll, stateFilters, customValFilters, limitCount, clock) ==
    Limit(SortJobs({ScanJob(j, latestStatus(st, j.job_id)) :
                      j \in processedRows(jobs, st, getAll, stateFilters,
                                          customValFilters, clock)}),
          limitCount)

\* checkValidJobState, and assert(!getAll) under a customVal filter or a limit.
getProcessedJobsDSOK(getAll, stateFilters, customValFilters, limitCount) ==
    /\ stateFilters \subseteq validJobStates
    /\ (customValFilters # {} \/ limitCount > 0) => ~getAll

getProcessedJobsDS(cache, ds, jobs, st, getAll, stateFilters, customValFilters, limitCount, clock) ==
    IF isEmptyResult(cache, ds, stateFilters, customValFilters)
    THEN [jobs |-> <<>>, cache |-> cache]
    ELSE LET jobList == getProcessedQuery(jobs, st, getAll, stateFilters,
                                          customValFilters, limitCount, clock)
         IN [jobs |-> jobList,
             cache |-> IF Len(jobList) = 0
                       THEN markClearEmptyResult(cache, ds, stateFilters,
                                                 customValFilters, TRUE)
                       ELSE cache]

\* ----------------------------------------------------- per-dataset writes
\* storeJobsDS: the rows of the jobs table after the COPY. With copyID the
\* job_id of the job is kept, else the sequence of the table assigns it.
storeJobsRows(jobs, seqv, copyID, jobList) ==
    jobs \cup {JobRow(IF copyID THEN jobList[i].JobID ELSE seqv + i,
                      jobList[i].CustomVal, jobList[i].CreatedAt) :
               i \in 1..Len(jobList)}

storeJobsSeq(seqv, copyID, jobList) == IF copyID THEN seqv ELSE seqv + Len(jobList)

\* The primary key of the jobs table: no job_id twice.
storeJobsDSOK(jobs, seqv, copyID, jobList) ==
    LET newID(i) == IF copyID THEN jobList[i].JobID ELSE seqv + i
    IN /\ \A i \in 1..Len(jobList) : newID(i) \notin JobIDs(jobs)
       /\ \A i, k \in 1..Len(jobList) : i # k => newID(i) # newID(k)

\* updateJobStatusDS: the rows of the status table after the COPY.
updateJobStatusRows(st, statusList) ==
    st \o [i \in 1..Len(statusList) |-> StatusRow(statusList[i])]

\* job_id REFERENCES jobs(job_id), and job_state is of the enumerated type.
updateJobStatusDSOK(jobs, statusList) ==
    \A i \in 1..Len(statusList) :
        /\ statusList[i].JobID \in JobIDs(jobs)
        /\ statusList[i].JobState \in validJobStates \ {"NP"}

\* The cache after updateJobStatusDS: the written states are cleared for the
\* customVals of the caller.
updateJobStatusCache(cache, ds, statusList, customValFilters) ==
    IF Len(statusList) = 0 THEN cache
    ELSE markClearEmptyResult(cache, ds,
                              {statusList[i].JobState : i \in 1..Len(statusList)},
                              customValFilters, FALSE)

\* --------------------------------------------------- maintenance decisions
\* COUNT(DISTINCT(id)) FROM status WHERE job_state is succeeded or aborted:
\* id is the key of the status row.
delCountOf(st) ==
    Cardinality({i \in 1..Len(st) : st[i].job_state \in {"succeeded", "aborted"}})

\* A check of the two thresholds that never looks at the retention period.
checkIfMigrateDSAt_NoRetention(jobs, st, retention, clock, statusThres) ==
    LET totalCount == Cardinality(jobs)
        delCount == delCountOf(st)
        statusCount == Len(st)
    IN IF totalCount = 0 THEN <<FALSE, 0>>
       ELSE IF \/ delCount * jobDoneMigrateThresDen > totalCount * jobDoneMigrateThresNum
               \/ statusCount > statusThres * totalCount
            THEN <<TRUE, totalCount - delCount>>
       ELSE <<FALSE, totalCount - delCount>>

\* checkIfMigrateDS with the value statusThres for jobStatusMigrateThres:
\* <<ifMigrate, remCount>>. The quotients of the source are float64 divisions
\* of counts; for counts below 2^50 a quotient is above the float64 nearest
\* to the threshold exactly when the fraction is above the threshold, which
\* is what is compared here with integers.
checkIfMigrateDSAt(jobs, st, retention, clock, statusThres) ==
    LET totalCount == Cardinality(jobs)
        delCount == delCountOf(st)
        statusCount == Len(st)
    IN IF totalCount = 0 THEN <<FALSE, 0>>
       ELSE IF retention > 0 /\
               clock - Max({j.created_at : j \in jobs}) < retention
            THEN <<FALSE, totalCount - delCount>>
       ELSE IF \/ delCount * jobDoneMigrateThresDen > totalCount * jobDoneMigrateThresNum
               \/ statusCount > statusThres * totalCount
            THEN <<TRUE, totalCount - delCount>>
       ELSE <<FALSE, totalCount - delCount>>

\* checkIfMigrateDS at the scale of the model.
checkIfMigrateDS(jobs, st, retention, clock) ==
    checkIfMigrateDSAt(jobs, st, retention, clock, jobStatusMigrateThres)

\* A dataset that is full as soon as it holds maxDSSize jobs.
checkIfFullDS_AtLeast(jobs) == Cardinality(jobs) >= maxDSSize

checkIfFullDS(jobs) == Cardinality(jobs) > maxDSSize

\* A selection of every dataset of the list but the last, ready or not.
selectMigrate_AllButLast(dsList, i, jt, stt, retention, clock, acc) ==
    IF Len(dsList) <= 1 THEN acc
    ELSE [migrateFrom |-> SubSeq(dsList, 1, Len(dsList) - 1),
          insertBeforeDS |-> dsList[Len(dsList)],
          liveCount |-> Cardinality(UNION {jt[dsList[k]] : k \in 1..(Len(dsList) - 1)})]

\* A selection loop that goes on past a dataset it does not select.
RECURSIVE selectMigrate_PastNotReady(_, _, _, _, _, _, _)
selectMigrate_PastNotReady(dsList, i, jt, stt, retention, clock, acc) ==
    IF i > Len(dsList) THEN acc
    ELSE LET chk == checkIfMigrateDS(jt[dsList[i]], stt[dsList[i]], retention, clock)
         IN IF /\ i < Len(dsList)
               /\ chk[1]
               /\ i - 1 < maxMigrateOnce
               /\ acc.liveCount < maxDSSize
            THEN selectMigrate_PastNotReady(dsList, i + 1, jt, stt, retention, clock,
                     [migrateFrom |-> Append(acc.migrateFrom, dsList[i]),
                      insertBeforeDS |-> dsList[i + 1],
                      liveCount |-> acc.liveCount + chk[2]])
            ELSE selectMigrate_PastNotReady(dsList, i + 1, jt, stt, retention, clock, acc)

\* The selection loop of mainCheckLoop over the snapshot dsList, from its
\* i-th dataset on: [migrateFrom, insertBeforeDS, liveCount].
RECURSIVE selectMigrate(_, _, _, _, _, _, _)
selectMigrate(dsList, i, jt, stt, retention, clock, acc) ==
    IF i > Len(dsList) THEN acc
    ELSE LET chk == checkIfMigrateDS(jt[dsList[i]], stt[dsList[i]], retention, clock)
         IN IF /\ i < Len(dsList)
               /\ chk[1]
               /\ i - 1 < maxMigrateOnce
               /\ acc.liveCount < maxDSSize
            THEN selectMigrate(dsList, i + 1, jt, stt, retention, clock,
                     [migrateFrom |-> Append(acc.migrateFrom, dsList[i]),
                      insertBeforeDS |-> dsList[i + 1],
                      liveCount |-> acc.liveCount + chk[2]])
            ELSE acc

\* Here an addNewDS that puts the destination of a migration behind the
\* newest dataset.
newDSIdxOf_AfterLast(dList, appendLast, insertBeforeDS) ==
    IF appendLast
    THEN IF Len(dList) = 0 THEN <<1>> ELSE <<dList[Len(dList)][1] + 1>>
    ELSE IF Len(dList) = 0 THEN <<>> ELSE <<dList[Len(dList)][1], 1>>

\* An index that is always the first one behind the number of the predecessor.
newDSIdxOf_FirstSub(dList, appendLast, insertBeforeDS) ==
    IF appendLast
    THEN IF Len(dList) = 0 THEN <<1>> ELSE <<dList[Len(dList)][1] + 1>>
    ELSE IF \E i \in 2..Len(dList) : dList[i] = insertBeforeDS
         THEN LET i == CHOOSE k \in 2..Len(dList) : dList[k] = insertBeforeDS
              IN <<dList[i - 1][1], 1>>
         ELSE <<>>

\* addNewDS: the index of the new dataset, <<>> when none is found.
newDSIdxOf(dList, appendLast, insertBeforeDS) ==
    IF appendLast
    THEN IF Len(dList) = 0 THEN <<1>> ELSE <<dList[Len(dList)][1] + 1>>
    ELSE IF \E i \in 2..Len(dList) : dList[i] = insertBeforeDS
         THEN LET i == CHOOSE k \in 2..Len(dList) : dList[k] = insertBeforeDS
                  pre == dList[i - 1]
              IN IF Len(pre) = 1 THEN <<pre[1], 1>> ELSE <<pre[1], pre[2] + 1>>
         ELSE <<>>

\* The assertions of addNewDS before it journals.
addNewDSOK(dList, appendLast, insertBeforeDS) ==
    IF appendLast
    THEN Len(dList) = 0 \/ Len(dList[Len(dList)]) = 1
    ELSE /\ Len(dList) > 0
         /\ \A i \in 1..Len(dList) :
               dList[i] = insertBeforeDS =>
                  /\ i > 1
                  /\ Len(dList[i]) = 1
                  /\ Len(dList[i - 1]) \in {1, 2}
                  /\ dList[i][1] = dList[i - 1][1] + 1
         /\ \E i \in 1..Len(dList) : dList[i] = insertBeforeDS

\* A state filter of the second read that lets succeeded jobs through.
migrateStateFilters_WithSucceeded ==
    {"failed", "waiting", "waiting_retry", "executing", "succeeded"}

\* migrateJobs: what is read from the source. The state filter of the second
\* read is the list of the states that are not final.
migrateStateFilters == {"failed", "waiting", "waiting_retry", "executing"}

migrateUnprocessedList(jobs, st) == getUnprocessedQuery(jobs, st, {}, 0)

migrateRetryList(jobs, st, clock) ==
    getProcessedQuery(jobs, st, TRUE, migrateStateFilters, {}, 0, clock)

\* Here a status list with the latest status of every job twice.
migrateStatusList_Twice(retryList) ==
    [i \in 1..(2 * Len(retryList)) |->
        LET job == retryList[((i - 1) % Len(retryList)) + 1]
        IN [JobID |-> job.JobID,
            JobState |-> job.LastJobStatus.JobState,
            AttemptNum |-> job.LastJobStatus.AttemptNum,
            ExecTime |-> job.LastJobStatus.ExecTime,
            RetryTime |-> job.LastJobStatus.RetryTime,
            ErrorCode |-> job.LastJobStatus.ErrorCode,
            ErrorResponse |-> job.LastJobStatus.ErrorResponse]]

\* The status list migrateJobs builds from the retry list.
migrateStatusList(retryList) ==
    [i \in 1..Len(retryList) |->
        [JobID |-> retryList[i].JobID,
         JobState |-> retryList[i].LastJobStatus.JobState,
         AttemptNum |-> retryList[i].LastJobStatus.AttemptNum,
         ExecTime |-> retryList[i].LastJobStatus.ExecTime,
         RetryTime |-> retryList[i].LastJobStatus.RetryTime,
         ErrorCode |-> retryList[i].LastJobStatus.ErrorCode,
         ErrorResponse |-> retryList[i].LastJobStatus.ErrorResponse]]

\* ------------------------------------------------------------- the journal
journalMarkStart(j, seqv, opType, from, to) ==
    Append(j, [id |-> seqv + 1, operation |-> opType, done |-> FALSE,
               from |-> from, to |-> to])

\* An UPDATE that matches no row: the entry stays as it is.
journalMarkDone_NoRow(j, opID) == j

\* An UPDATE with id < $1: the entries before the one of opID are marked.
journalMarkDone_Older(j, opID) ==
    [k \in DOMAIN j |-> IF j[k].id < opID THEN [j[k] EXCEPT !.done = TRUE] ELSE j[k]]

journalMarkDone(j, opID) ==
    [k \in DOMAIN j |-> IF j[k].id = opID THEN [j[k] EXCEPT !.done = TRUE] ELSE j[k]]

\* DROP TABLE: the tables left.
dropTable(t, ds) == [x \in DOMAIN t \ {ds} |-> t[x]]

\* CREATE TABLE: the tables after it, the new one empty.
createTable(t, ds, empty) == [x \in DOMAIN t \cup {ds} |-> IF x = ds THEN empty ELSE t[x]]

\* ------------------------------------------------------------------- Init
\* sync.RWMutex: w, the writer holds it; r, the readers that hold it; p, a
\* Lock() call is waiting for the readers to leave, and a reader that arrives
\* waits behind it.
RWMutex == [w |-> FALSE, r |-> {}, p |-> FALSE]

\* Unlock().
Unlock(l) == [l EXCEPT !.w = FALSE]

NThreads == 2
Threads == 1..NThreads

NoRet == [op |-> "none"]

InitLoc ==
    [dsList |-> <<>>, migrateFrom |-> <<>>, insertBeforeDS |-> <<>>, liveCount |-> 0,
     appendLast |-> FALSE, newDS |-> <<>>, migrateTo |-> <<>>, opID |-> 0, i |-> 0]

IdleThread == [pc |-> "idle"]

\* The state after Setup(clearAll = true, prefix, retention): no dataset was
\* left, the journal was created and addNewDS(true) added dataset 1. size is
\* the value the specification gives maxDSSize.
InitSized(retention, size) ==
    /\ jobsT = (<<1>> :> {})
    /\ statusT = (<<1>> :> <<>>)
    /\ jobSeq = (<<1>> :> 0)
    /\ journal = <<[id |-> 1, operation |-> addDSOperation, done |-> TRUE,
                    from |-> <<>>, to |-> <<1>>]>>
    /\ journalSeq = 1
    /\ datasetList = <<(<<1>>)>>
    /\ datasetRangeList = <<>>
    /\ dsEmptyResultCache = {}
    /\ dsListLock = RWMutex
    /\ dsMigrationLock = RWMutex
    /\ dsRetentionPeriod = retention
    /\ maxDSSize = size
    /\ dbHandle = "open"
    /\ journalTable = TRUE
    /\ pc = "sleep"
    /\ loc = InitLoc
    /\ thr = [t \in Threads |-> IdleThread]
    /\ now = 1
    /\ ret = NoRet
    /\ panic = ""
    /\ acked = <<>>
    /\ lastWritten = <<>>
    /\ written = 0

InitWith(retention) == InitSized(retention, dsSizeOne)

Init == InitWith(0)

\* A failed assertion (assert, assertError): the process panics where it is.
\* Panic leaves the locks and the threads to the caller's step.
Panic(what) ==
    /\ panic' = what
    /\ UNCHANGED <<jobsT, statusT, jobSeq, journal, journalSeq,
                   datasetList, datasetRangeList, dsEmptyResultCache, cfgVars,
                   pc, loc, now, ret, acked, lastWritten, written>>

Fail(what) == Panic(what) /\ UNCHANGED <<lockVars, thr>>

\* The process runs and its handle is open: every step below starts with a
\* statement on jd.dbHandle, or follows one in the same call.
Running == panic = "" /\ pc # "down" /\ dbHandle = "open"

\* ---------------------------------------------------------- mainCheckLoop
\* Lines 1030-1044: the sleep ends, the list is read under the read lock and
\* the newest dataset is probed.
LoopStart ==
    /\ Running /\ pc = "sleep"
    /\ ~dsListLock.w
    /\ LET dsList == datasetList
           latestDS == dsList[Len(dsList)]
       IN /\ loc' = [InitLoc EXCEPT !.dsList = dsList, !.appendLast = TRUE]
          /\ pc' = IF checkIfFullDS(jobsT[latestDS]) THEN "addNewDS" ELSE "migrate"
    /\ ret' = NoRet
    /\ UNCHANGED <<dbVars, memVars, lockVars, cfgVars, thr, now, panic, histVars>>

\* addNewDS up to journalMarkStart, under dsListLock.Lock(): the list is read
\* from the database, the new index is chosen and the operation is journaled.
AddNewDSBegin ==
    /\ Running /\ pc = "addNewDS"
    /\ ~dsListLock.w /\ dsListLock.r = {}
    /\ IF ~getDSListOK(jobsT, statusT) THEN Fail("getDSList")
       ELSE LET dList == getDSList(jobsT)
            IN IF ~addNewDSOK(dList, loc.appendLast, loc.insertBeforeDS)
               THEN Fail("addNewDS")
               ELSE /\ datasetList' = dList
                    /\ dsListLock' = [dsListLock EXCEPT !.w = TRUE, !.p = FALSE]
                    /\ journal' = journalMarkStart(journal, journalSeq, addDSOperation, <<>>,
                                      newDSIdxOf(dList, loc.appendLast, loc.insertBeforeDS))
                    /\ journalSeq' = journalSeq + 1
                    /\ loc' = [loc EXCEPT
                                 !.newDS = newDSIdxOf(dList, loc.appendLast, loc.insertBeforeDS),
                                 !.opID = journalSeq + 1]
                    /\ pc' = "createJobs"
                    /\ ret' = NoRet
                    /\ UNCHANGED <<jobsT, statusT, jobSeq, datasetRangeList,
                                   dsEmptyResultCache, dsMigrationLock, cfgVars,
                                   thr, now, panic, histVars>>

\* CREATE TABLE <prefix>_jobs_<idx>, with its job_id sequence.
CreateJobsTable ==
    /\ Running /\ pc = "createJobs"
    /\ IF loc.newDS \in DOMAIN jobsT THEN Fail("createJobsTable")
       ELSE /\ jobsT' = createTable(jobsT, loc.newDS, {})
            /\ jobSeq' = createTable(jobSeq, loc.newDS, 0)
            /\ pc' = "createStatus"
            /\ ret' = NoRet
            /\ UNCHANGED <<statusT, journal, journalSeq, memVars, lockVars,
                           cfgVars, loc, thr, now, panic, histVars>>

\* CREATE TABLE <prefix>_job_status_<idx>.
CreateStatusTable ==
    /\ Running /\ pc = "createStatus"
    /\ IF loc.newDS \in DOMAIN statusT THEN Fail("createStatusTable")
       ELSE /\ statusT' = createTable(statusT, loc.newDS, <<>>)
            /\ pc' = IF loc.appendLast THEN "addRefresh" ELSE "addDone"
            /\ ret' = NoRet
            /\ UNCHANGED <<jobsT, jobSeq, journal, journalSeq, memVars, lockVars,
                           cfgVars, loc, thr, now, panic, histVars>>

\* A setval from the minimum job_id of the range list's last entry.
newDSMinOf_FromMin(dRangeList) == dRangeList[Len(dRangeList)].minJobID

\* The value setval gives the sequence of the new dataset: the maximum job_id
\* of the range list's last entry.
newDSMinOf(dRangeList) == dRangeList[Len(dRangeList)].maxJobID

\* Lines 554-575 (appendLast): both lists are read from the database and the
\* sequence of the new jobs table is set.
AddNewDSRefresh ==
    /\ Running /\ pc = "addRefresh"
    /\ IF ~getDSListOK(jobsT, statusT) THEN Fail("getDSList")
       ELSE LET dList == getDSList(jobsT)
            IN IF ~getDSRangeListOK(dList, jobsT) THEN Fail("getDSRangeList")
               ELSE LET dRangeList == getDSRangeList(dList, jobsT)
                    IN IF Len(dRangeList) > 0 /\ ~(newDSMinOf(dRangeList) > 0)
                       THEN Fail("addNewDS")
                       ELSE /\ datasetList' = dList
                            /\ datasetRangeList' = dRangeList
                            /\ jobSeq' = IF Len(dRangeList) > 0
                                         THEN [jobSeq EXCEPT ![loc.newDS] = newDSMinOf(dRangeList)]
                                         ELSE jobSeq
                            /\ pc' = "addDone"
                            /\ ret' = NoRet
                            /\ UNCHANGED <<jobsT, statusT, journal, journalSeq,
                                           dsEmptyResultCache, lockVars, cfgVars,
                                           loc, thr, now, panic, histVars>>

\* The deferred journalMarkDone of addNewDS, then dsListLock.Unlock().
AddNewDSDone ==
    /\ Running /\ pc = "addDone"
    /\ journal' = journalMarkDone(journal, loc.opID)
    /\ dsListLock' = Unlock(dsListLock)
    /\ loc' = [loc EXCEPT !.migrateTo = IF loc.appendLast THEN loc.migrateTo ELSE loc.newDS]
    /\ pc' = IF loc.appendLast THEN "migrate" ELSE "copyStart"
    /\ ret' = NoRet
    /\ UNCHANGED <<jobsT, statusT, jobSeq, journalSeq, memVars, dsMigrationLock,
                   cfgVars, thr, now, panic, histVars>>

\* Lines 1047-1064: dsMigrationLock.Lock() and the selection of the datasets to
\* migrate, over the list read at the start of the iteration.
MigrateSelect ==
    /\ Running /\ pc = "migrate"
    /\ ~dsMigrationLock.w /\ dsMigrationLock.r = {}
    /\ LET sel == selectMigrate(loc.dsList, 1, jobsT, statusT, dsRetentionPeriod, now,
                      [migrateFrom |-> <<>>, insertBeforeDS |-> <<>>, liveCount |-> 0])
       IN IF Len(sel.migrateFrom) = 0
          THEN /\ pc' = "sleep"
               /\ loc' = InitLoc
               /\ dsMigrationLock' = [dsMigrationLock EXCEPT !.p = FALSE]
          ELSE /\ pc' = IF sel.liveCount > 0 THEN "addNewDS" ELSE "delStart"
               /\ loc' = [loc EXCEPT !.migrateFrom = sel.migrateFrom,
                                     !.insertBeforeDS = sel.insertBeforeDS,
                                     !.liveCount = sel.liveCount,
                                     !.appendLast = FALSE]
               /\ dsMigrationLock' = [dsMigrationLock EXCEPT !.w = TRUE, !.p = FALSE]
    /\ ret' = NoRet
    /\ UNCHANGED <<dbVars, memVars, dsListLock, cfgVars, thr, now, panic, histVars>>

\* journalMarkStart(migrateCopyOperation, {From: migrateFrom, To: migrateTo}).
MigrateCopyStart ==
    /\ Running /\ pc = "copyStart"
    /\ journal' = journalMarkStart(journal, journalSeq, migrateCopyOperation,
                                   loc.migrateFrom, loc.migrateTo)
    /\ journalSeq' = journalSeq + 1
    /\ loc' = [loc EXCEPT !.opID = journalSeq + 1, !.i = 1]
    /\ pc' = "copyJobs"
    /\ ret' = NoRet
    /\ UNCHANGED <<jobsT, statusT, jobSeq, memVars, lockVars, cfgVars,
                   thr, now, panic, histVars>>

\* migrateJobs, lines 633-646: both reads of the source and the storeJobsDS of
\* the destination, which keeps the job ids.
MigrateJobsStore ==
    /\ Running /\ pc = "copyJobs"
    /\ LET srcDS == loc.migrateFrom[loc.i]
           destDS == loc.migrateTo
           jobList == migrateUnprocessedList(jobsT[srcDS], statusT[srcDS]) \o
                      migrateRetryList(jobsT[srcDS], statusT[srcDS], now)
       IN IF ~storeJobsDSOK(jobsT[destDS], jobSeq[destDS], TRUE, jobList) THEN Fail("storeJobsDS")
          ELSE /\ jobsT' = [jobsT EXCEPT ![destDS] = storeJobsRows(@, jobSeq[destDS], TRUE, jobList)]
               /\ dsEmptyResultCache' = markClearEmptyResult(dsEmptyResultCache, destDS, {}, {}, FALSE)
               /\ pc' = "copyStatus"
               /\ ret' = NoRet
               /\ UNCHANGED <<statusT, jobSeq, journal, journalSeq, datasetList,
                              datasetRangeList, lockVars, cfgVars, loc, thr,
                              now, panic, histVars>>

\* migrateJobs, lines 648-662: the latest status of the unfinished jobs is
\* written to the destination.
MigrateJobsStatus ==
    /\ Running /\ pc = "copyStatus"
    /\ LET srcDS == loc.migrateFrom[loc.i]
           destDS == loc.migrateTo
           statusList == migrateStatusList(migrateRetryList(jobsT[srcDS], statusT[srcDS], now))
       IN IF ~updateJobStatusDSOK(jobsT[destDS], statusList) THEN Fail("updateJobStatusDS")
          ELSE /\ statusT' = [statusT EXCEPT ![destDS] = updateJobStatusRows(@, statusList)]
               /\ dsEmptyResultCache' = updateJobStatusCache(dsEmptyResultCache, destDS, statusList, {})
               /\ loc' = [loc EXCEPT !.i = loc.i + 1]
               /\ pc' = IF loc.i < Len(loc.migrateFrom) THEN "copyJobs" ELSE "copyDone"
               /\ ret' = NoRet
               /\ UNCHANGED <<jobsT, jobSeq, journal, journalSeq, datasetList,
                              datasetRangeList, lockVars, cfgVars, thr,
                              now, panic, histVars>>

\* journalMarkDone of the copy.
MigrateCopyDone ==
    /\ Running /\ pc = "copyDone"
    /\ journal' = journalMarkDone(journal, loc.opID)
    /\ pc' = "delStart"
    /\ ret' = NoRet
    /\ UNCHANGED <<jobsT, statusT, jobSeq, journalSeq, memVars, lockVars,
                   cfgVars, loc, thr, now, panic, histVars>>

\* journalMarkStart(migrateDelOperation, {From: migrateFrom}).
MigrateDelStart ==
    /\ Running /\ pc = "delStart"
    /\ journal' = journalMarkStart(journal, journalSeq, migrateDelOperation,
                                   loc.migrateFrom, <<>>)
    /\ journalSeq' = journalSeq + 1
    /\ loc' = [loc EXCEPT !.opID = journalSeq + 1, !.i = 1]
    /\ pc' = "dropStatus"
    /\ ret' = NoRet
    /\ UNCHANGED <<jobsT, statusT, jobSeq, memVars, lockVars, cfgVars,
                   thr, now, panic, histVars>>

\* postMigrateDeleteDS under dsListLock.Lock(): dropDS(ds, false) of every
\* source, the status table first.
DropStatusTable ==
    /\ Running /\ pc = "dropStatus"
    /\ loc.i = 1 => (~dsListLock.w /\ dsListLock.r = {})
    /\ IF loc.migrateFrom[loc.i] \notin DOMAIN statusT THEN Fail("dropDS")
       ELSE /\ statusT' = dropTable(statusT, loc.migrateFrom[loc.i])
            /\ dsListLock' = [dsListLock EXCEPT !.w = TRUE, !.p = FALSE]
            /\ pc' = "dropJobs"
            /\ ret' = NoRet
            /\ UNCHANGED <<jobsT, jobSeq, journal, journalSeq, memVars, dsMigrationLock,
                           cfgVars, loc, thr, now, panic, histVars>>

DropJobsTable ==
    /\ Running /\ pc = "dropJobs"
    /\ IF loc.migrateFrom[loc.i] \notin DOMAIN jobsT THEN Fail("dropDS")
       ELSE /\ jobsT' = dropTable(jobsT, loc.migrateFrom[loc.i])
            /\ jobSeq' = dropTable(jobSeq, loc.migrateFrom[loc.i])
            /\ loc' = [loc EXCEPT !.i = loc.i + 1]
            /\ pc' = IF loc.i < Len(loc.migrateFrom) THEN "dropStatus" ELSE "delRefresh"
            /\ ret' = NoRet
            /\ UNCHANGED <<statusT, journal, journalSeq, memVars, lockVars,
                           cfgVars, thr, now, panic, histVars>>

\* The end of postMigrateDeleteDS: both lists are read from the database; then
\* dsListLock.Unlock().
PostMigrateRefresh ==
    /\ Running /\ pc = "delRefresh"
    /\ IF ~getDSListOK(jobsT, statusT) THEN Fail("getDSList")
       ELSE IF ~getDSRangeListOK(getDSList(jobsT), jobsT) THEN Fail("getDSRangeList")
       ELSE /\ datasetList' = getDSList(jobsT)
            /\ datasetRangeList' = getDSRangeList(getDSList(jobsT), jobsT)
            /\ dsListLock' = Unlock(dsListLock)
            /\ pc' = "delDone"
            /\ ret' = NoRet
            /\ UNCHANGED <<dbVars, dsEmptyResultCache, dsMigrationLock, cfgVars,
                           loc, thr, now, panic, histVars>>

\* journalMarkDone of the delete, then dsMigrationLock.Unlock().
MigrateDelDone ==
    /\ Running /\ pc = "delDone"
    /\ journal' = journalMarkDone(journal, loc.opID)
    /\ dsMigrationLock' = Unlock(dsMigrationLock)
    /\ loc' = InitLoc
    /\ pc' = "sleep"
    /\ ret' = NoRet
    /\ UNCHANGED <<jobsT, statusT, jobSeq, journalSeq, memVars, dsListLock,
                   cfgVars, thr, now, panic, histVars>>

\* --------------------------------------------------------------- the API
\* The list as the caller gave it.
SortStatusList_Unsorted(sl) == sl

\* sort.Slice by JobID. For the short lists of the model the sort is an
\* insertion sort, which keeps the order of equal job ids.
RECURSIVE SortStatusList(_)
SortStatusList(sl) ==
    IF Len(sl) <= 1 THEN sl
    ELSE LET m == Min({sl[i].JobID : i \in 1..Len(sl)})
             k == Min({i \in 1..Len(sl) : sl[i].JobID = m})
         IN <<sl[k]>> \o SortStatusList([i \in 1..(Len(sl) - 1) |->
                                            IF i < k THEN sl[i] ELSE sl[i + 1]])

\* A comparison that also sends the maximum job_id of a range to the next one.
aboveRange_Inclusive(status, rng) == status.JobID >= rng.maxJobID

\* Line 1275: the JobID is outside (above) the range of this dataset.
aboveRange(status, rng) == status.JobID > rng.maxJobID

\* The loop of UpdateJobStatus over the range list from its k-th entry on, with
\* statusList processed up to (excluding) lastPos: the updateJobStatusDS calls
\* it makes, the position it ends at, and whether its assertion held.
RECURSIVE routeStatus(_, _, _, _)
routeStatus(dsRangeList, k, statusList, lastPos) ==
    IF k > Len(dsRangeList)
    THEN [calls |-> <<>>, lastPos |-> lastPos, ok |-> TRUE]
    ELSE IF lastPos > Len(statusList) \/
            ~(statusList[lastPos].JobID >= dsRangeList[k].minJobID)
    THEN [calls |-> <<>>, lastPos |-> lastPos, ok |-> FALSE]
    ELSE LET above == {i \in lastPos..Len(statusList) :
                          aboveRange(statusList[i], dsRangeList[k])}
         IN IF above # {}
            THEN LET i == Min(above)
                     rest == routeStatus(dsRangeList, k + 1, statusList, i)
                 IN [rest EXCEPT !.calls =
                        <<[ds |-> dsRangeList[k].ds,
                           rows |-> SubSeq(statusList, lastPos, i - 1)]>> \o @]
            ELSE [calls |-> <<[ds |-> dsRangeList[k].ds,
                               rows |-> SubSeq(statusList, lastPos, Len(statusList))]>>,
                  lastPos |-> Len(statusList) + 1, ok |-> TRUE]

\* All the updateJobStatusDS calls of UpdateJobStatus: the ranges, then the
\* rest for the last dataset of the list.
updateCalls(dsList, dsRangeList, statusList) ==
    LET r == routeStatus(dsRangeList, 1, statusList, 1)
    IN IF ~r.ok \/ r.lastPos > Len(statusList) THEN r
       ELSE IF Len(dsRangeList) # Len(dsList) - 1 THEN [r EXCEPT !.ok = FALSE]
       ELSE [r EXCEPT !.calls = @ \o <<[ds |-> dsList[Len(dsList)],
                                        rows |-> SubSeq(statusList, r.lastPos, Len(statusList))]>>,
                      !.lastPos = Len(statusList) + 1]

\* The calls are made in order, each its own transaction; the first that fails
\* panics and leaves what the earlier ones wrote. [st, cache, ok]
RECURSIVE applyCalls(_, _, _, _, _, _)
applyCalls(calls, k, jt, st, cache, customValFilters) ==
    IF k > Len(calls) THEN [st |-> st, cache |-> cache, ok |-> TRUE]
    ELSE IF Len(calls[k].rows) = 0
    THEN applyCalls(calls, k + 1, jt, st, cache, customValFilters)
    ELSE IF calls[k].ds \notin DOMAIN st \/ ~updateJobStatusDSOK(jt[calls[k].ds], calls[k].rows)
    THEN [st |-> st, cache |-> cache, ok |-> FALSE]
    ELSE applyCalls(calls, k + 1, jt,
                    [st EXCEPT ![calls[k].ds] = updateJobStatusRows(@, calls[k].rows)],
                    updateJobStatusCache(cache, calls[k].ds, calls[k].rows, customValFilters),
                    customValFilters)

\* lastWritten after the statuses of sl, in order.
RECURSIVE noteWritten(_, _, _)
noteWritten(lw, sl, k) ==
    IF k > Len(sl) THEN lw
    ELSE noteWritten([id \in DOMAIN lw \cup {sl[k].JobID} |->
                         IF id = sl[k].JobID THEN sl[k] ELSE lw[id]], sl, k + 1)

\* Store(jobList) between its RLock and its deferred RUnlock: storeJobsDS on
\* the last dataset of the list.
StoreBody(jobList) ==
    /\ Running
    /\ LET ds == datasetList[Len(datasetList)]
       IN IF ~storeJobsDSOK(jobsT[ds], jobSeq[ds], FALSE, jobList) THEN Panic("storeJobsDS")
          ELSE /\ jobsT' = [jobsT EXCEPT ![ds] = storeJobsRows(@, jobSeq[ds], FALSE, jobList)]
               /\ jobSeq' = [jobSeq EXCEPT ![ds] = storeJobsSeq(@, FALSE, jobList)]
               /\ dsEmptyResultCache' = markClearEmptyResult(dsEmptyResultCache, ds, {}, {}, FALSE)
               /\ acked' = acked \o [i \in 1..Len(jobList) |->
                                        JobRow(jobSeq[ds] + i, jobList[i].CustomVal,
                                               jobList[i].CreatedAt)]
               /\ ret' = [op |-> "Store", n |-> Len(jobList)]
               /\ UNCHANGED <<statusT, journal, journalSeq, datasetList, datasetRangeList,
                              cfgVars, loopVars, now, panic, lastWritten, written>>

\* Store(jobList) as one step, under dsListLock.RLock().
Store(jobList) ==
    /\ ~dsListLock.w
    /\ StoreBody(jobList)
    /\ UNCHANGED <<lockVars, thr>>

\* UpdateJobStatus(statusList, customValFilters) between its RLocks and its
\* deferred RUnlocks.
UpdateJobStatusBody(statusList, customValFilters) ==
    /\ Running
    /\ LET sorted == SortStatusList(statusList)
           r == updateCalls(datasetList, datasetRangeList, sorted)
           a == applyCalls(r.calls, 1, jobsT, statusT, dsEmptyResultCache, customValFilters)
       IN /\ statusT' = a.st
          /\ dsEmptyResultCache' = a.cache
          /\ panic' = IF r.ok /\ a.ok THEN "" ELSE "UpdateJobStatus"
          /\ lastWritten' = IF r.ok /\ a.ok THEN noteWritten(lastWritten, sorted, 1)
                            ELSE lastWritten
          /\ written' = written + Len(statusList)
          /\ ret' = [op |-> "UpdateJobStatus", statusList |-> sorted]
    /\ UNCHANGED <<jobsT, jobSeq, journal, journalSeq, datasetList, datasetRangeList,
                   cfgVars, loopVars, now, acked>>

\* UpdateJobStatus(statusList, customValFilters) as one step, under the read
\* locks of dsMigrationLock and dsListLock.
UpdateJobStatus(statusList, customValFilters) ==
    /\ ~dsMigrationLock.w /\ ~dsListLock.w
    /\ UpdateJobStatusBody(statusList, customValFilters)
    /\ UNCHANGED <<lockVars, thr>>

\* The loop of GetUnprocessed over the list from its k-th dataset on.
RECURSIVE unprocessedLoop(_, _, _, _, _, _, _)
unprocessedLoop(dsList, k, jt, st, cache, customValFilters, count) ==
    IF k > Len(dsList) \/ count = 0 THEN [jobs |-> <<>>, cache |-> cache]
    ELSE LET r == getUnprocessedJobsDS(cache, dsList[k], jt[dsList[k]], st[dsList[k]],
                                       customValFilters, count)
             rest == unprocessedLoop(dsList, k + 1, jt, st, r.cache, customValFilters,
                                     count - Len(r.jobs))
         IN [jobs |-> r.jobs \o rest.jobs, cache |-> rest.cache]

\* GetUnprocessed(customValFilters, count), count >= 0, between its RLocks
\* and its deferred RUnlocks.
GetUnprocessedBody(customValFilters, count) ==
    /\ Running
    /\ LET r == unprocessedLoop(datasetList, 1, jobsT, statusT, dsEmptyResultCache,
                                customValFilters, count)
       IN /\ dsEmptyResultCache' = r.cache
          /\ ret' = [op |-> "GetUnprocessed", customValFilters |-> customValFilters,
                     count |-> count, jobs |-> r.jobs]
    /\ UNCHANGED <<dbVars, datasetList, datasetRangeList, cfgVars,
                   loopVars, now, panic, histVars>>

\* GetUnprocessed(customValFilters, count) as one step, under the read locks.
GetUnprocessed(customValFilters, count) ==
    /\ ~dsMigrationLock.w /\ ~dsListLock.w
    /\ GetUnprocessedBody(customValFilters, count)
    /\ UNCHANGED <<lockVars, thr>>

\* The loop of GetProcessed over the list from its k-th dataset on.
RECURSIVE processedLoop(_, _, _, _, _, _, _, _, _)
processedLoop(dsList, k, jt, st, cache, stateFilter, customValFilters, count, clock) ==
    IF k > Len(dsList) \/ count = 0 THEN [jobs |-> <<>>, cache |-> cache]
    ELSE LET r == getProcessedJobsDS(cache, dsList[k], jt[dsList[k]], st[dsList[k]], FALSE,
                                     stateFilter, customValFilters, count, clock)
             rest == processedLoop(dsList, k + 1, jt, st, r.cache, stateFilter,
                                   customValFilters, count - Len(r.jobs), clock)
         IN [jobs |-> r.jobs \o rest.jobs, cache |-> rest.cache]

\* The assertions of the getProcessedJobsDS calls of that loop:
\* checkValidJobState, and the SELECT of a dataset that the cache does not
\* answer for, which fails on a state name that is not of job_state_type.
RECURSIVE processedLoopOK(_, _, _, _, _, _, _, _, _)
processedLoopOK(dsList, k, jt, st, cache, stateFilter, customValFilters, count, clock) ==
    IF k > Len(dsList) \/ count = 0 THEN TRUE
    ELSE LET r == getProcessedJobsDS(cache, dsList[k], jt[dsList[k]], st[dsList[k]], FALSE,
                                     stateFilter, customValFilters, count, clock)
         IN /\ getProcessedJobsDSOK(FALSE, stateFilter, customValFilters, count)
            /\ \/ isEmptyResult(cache, dsList[k], stateFilter, customValFilters)
               \/ stateFilter \subseteq job_state_type
            /\ processedLoopOK(dsList, k + 1, jt, st, r.cache, stateFilter,
                               customValFilters, count - Len(r.jobs), clock)

\* GetProcessed(stateFilter, customValFilters, count), count >= 0, between
\* its RLocks and its deferred RUnlocks.
GetProcessedBody(stateFilter, customValFilters, count) ==
    /\ Running
    /\ IF ~processedLoopOK(datasetList, 1, jobsT, statusT, dsEmptyResultCache,
                           stateFilter, customValFilters, count, now)
       THEN Panic("getProcessedJobsDS")
       ELSE LET r == processedLoop(datasetList, 1, jobsT, statusT, dsEmptyResultCache,
                                   stateFilter, customValFilters, count, now)
            IN /\ dsEmptyResultCache' = r.cache
               /\ ret' = [op |-> "GetProcessed", stateFilter |-> stateFilter,
                          customValFilters |-> customValFilters,
                          count |-> count, jobs |-> r.jobs]
               /\ UNCHANGED <<dbVars, datasetList, datasetRangeList,
                              cfgVars, loopVars, now, panic, histVars>>

\* GetProcessed(stateFilter, customValFilters, count) as one step, under the
\* read locks.
GetProcessed(stateFilter, customValFilters, count) ==
    /\ ~dsMigrationLock.w /\ ~dsListLock.w
    /\ GetProcessedBody(stateFilter, customValFilters, count)
    /\ UNCHANGED <<lockVars, thr>>

\* Time passes.
Tick ==
    /\ Running
    /\ now < MaxTime
    /\ now' = now + 1
    /\ ret' = NoRet
    /\ UNCHANGED <<dbVars, memVars, lockVars, cfgVars, loopVars, thr, panic,
                   histVars>>

\* ------------------------------------------------------ the specifications
\* The inputs of the callers. A job is stored with the time of the call as its
\* created_at; a status is one of a few full rows.
NewJob(cv) == [JobID |-> 0, CustomVal |-> cv, CreatedAt |-> now, LastJobStatus |-> NoStatus]

StoreInputs(tags, maxLen) ==
    UNION {[1..n -> {NewJob(cv) : cv \in tags}] : n \in 1..maxLen}

Succeeded ==
    [JobState |-> "succeeded", AttemptNum |-> 1, ExecTime |-> 1, RetryTime |-> 0,
     ErrorCode |-> "200", ErrorResponse |-> "ok"]
Failed ==
    [JobState |-> "failed", AttemptNum |-> 2, ExecTime |-> 1, RetryTime |-> 0,
     ErrorCode |-> "500", ErrorResponse |-> "err"]
FailedLater ==
    [JobState |-> "failed", AttemptNum |-> 3, ExecTime |-> 1, RetryTime |-> 2,
     ErrorCode |-> "503", ErrorResponse |-> "busy"]

StatusOf(id, t) ==
    [JobID |-> id, JobState |-> t.JobState, AttemptNum |-> t.AttemptNum,
     ExecTime |-> t.ExecTime, RetryTime |-> t.RetryTime,
     ErrorCode |-> t.ErrorCode, ErrorResponse |-> t.ErrorResponse]

\* The jobs of the datasets of the in-memory list.
PresentJobs == UNION {jobsT[ds] : ds \in Range(datasetList) \cap DOMAIN jobsT}

\* Status lists of one or two rows for distinct present jobs, in any order.
StatusInputs(templates) ==
    LET ids == JobIDs(PresentJobs)
    IN {<<StatusOf(id, t)>> : id \in ids, t \in templates}
       \cup {<<StatusOf(p[1], t1), StatusOf(p[2], t2)>> :
                p \in {q \in ids \X ids : q[1] # q[2]}, t1 \in templates, t2 \in templates}

MaxBatch == 2

DoStore ==
    \E jobList \in StoreInputs({"a"}, MaxBatch) :
        /\ Len(acked) + Len(jobList) <= MaxJobs
        /\ Store(jobList)

DoUpdateJobStatus ==
    /\ ~dsMigrationLock.w /\ ~dsListLock.w
    /\ \E statusList \in StatusInputs({Succeeded, Failed}) :
          /\ written + Len(statusList) <= MaxStatusRows
          /\ UpdateJobStatus(statusList, {"a"})

Maintenance ==
    \/ LoopStart
    \/ AddNewDSBegin
    \/ CreateJobsTable
    \/ CreateStatusTable
    \/ AddNewDSRefresh
    \/ AddNewDSDone
    \/ MigrateSelect
    \/ MigrateCopyStart
    \/ MigrateJobsStore
    \/ MigrateJobsStatus
    \/ MigrateCopyDone
    \/ MigrateDelStart
    \/ DropStatusTable
    \/ DropJobsTable
    \/ PostMigrateRefresh
    \/ MigrateDelDone

\* Store and UpdateJobStatus calls, each atomic, with the maintenance loop; no
\* crash.
Next ==
    \/ Maintenance
    \/ DoStore
    \/ DoUpdateJobStatus

Spec == Init /\ [][Next]_vars

\* The callers of the specifications with queries: single jobs of two tags,
\* single statuses that succeed or fail with a retry_time ahead of the first
\* clock value, and UpdateJobStatus given tag filters that cover the tags of the
\* jobs it updates.
Tags == {"a", "b"}

MaxQueryJobs == 3

TagsOf(statusList) ==
    {j.custom_val : j \in {r \in PresentJobs :
                             \E i \in 1..Len(statusList) : statusList[i].JobID = r.job_id}}

StoreTagged(maxJobs) ==
    \E jobList \in StoreInputs(Tags, 1) :
        /\ Len(acked) + Len(jobList) <= maxJobs
        /\ Store(jobList)

UpdateCovered(maxRows) ==
    /\ ~dsMigrationLock.w /\ ~dsListLock.w
    /\ \E statusList \in {sl \in StatusInputs({Succeeded, FailedLater}) : Len(sl) = 1} :
          /\ written + Len(statusList) <= maxRows
          /\ \E filters \in {TagsOf(statusList), Tags} :
                UpdateJobStatus(statusList, filters)

DoStoreTagged == StoreTagged(MaxQueryJobs)

DoUpdateCovered == UpdateCovered(MaxStatusRows)

MaxCacheJobs == 2

MaxCacheStatusRows == 2

DoStoreFew == StoreTagged(MaxCacheJobs)

DoUpdateFew == UpdateCovered(MaxCacheStatusRows)

\* GetUnprocessed for one tag or both, with a count no smaller than the number
\* of jobs.
DoGetUnprocessedAll ==
    \E filters \in {{"a"}, Tags} : GetUnprocessed(filters, MaxJobs)

DoGetUnprocessed ==
    \E filters \in {{"a"}, Tags} : \E count \in {1, MaxJobs} :
        GetUnprocessed(filters, count)

DoGetProcessed ==
    \E filters \in {{"a"}, Tags} :
        \E stateFilter \in {{"failed"}, {"failed", "succeeded"}} :
            GetProcessed(stateFilter, filters, MaxJobs)

\* Atomic calls of Store, UpdateJobStatus and GetUnprocessed with the
\* maintenance loop.
NextQuery ==
    \/ Maintenance
    \/ DoStoreTagged
    \/ DoUpdateCovered
    \/ DoGetUnprocessedAll

SpecQuery == Init /\ [][NextQuery]_vars

\* Atomic calls of the whole API on the first dataset while the clock advances
\* and the maintenance loop sleeps.
NextCache ==
    \/ DoStoreFew
    \/ DoUpdateFew
    \/ DoGetUnprocessed
    \/ DoGetProcessed
    \/ Tick

SpecCache == Init /\ [][NextCache]_vars

\* ------------------------------------------------- calls step by step
\* The calls of the API on threads, one step for each access to the database
\* or to the cache (every access to the cache is atomic under dsCacheLock).
\* A call holds its read locks from its first step to its last.

\* An RLock that registers no reader.
RLock_None(l, t) == l

\* RLock and RUnlock of a thread.
RLock(l, t) == [l EXCEPT !.r = @ \cup {t}]
RUnlock(l, t) == [l EXCEPT !.r = @ \ {t}]

\* The jobs of the Store calls that have not committed yet.
RECURSIVE InFlightJobs(_)
InFlightJobs(T) ==
    IF T = {} THEN 0
    ELSE LET t == CHOOSE u \in T : TRUE
         IN (IF thr[t].pc = "storeCommit" THEN Len(thr[t].jobList) ELSE 0)
            + InFlightJobs(T \ {t})

\* Store: dsListLock.RLock() and the choice of the last dataset of the list.
StoreLock(t) ==
    /\ Running /\ thr[t].pc = "idle"
    /\ ~dsListLock.w
    /\ \E jobList \in StoreInputs(Tags, 1) :
          /\ Len(acked) + InFlightJobs(Threads) + Len(jobList) <= MaxCacheJobs
          /\ thr' = [thr EXCEPT ![t] = [pc |-> "storeCommit", jobList |-> jobList,
                                        ds |-> datasetList[Len(datasetList)]]]
    /\ dsListLock' = RLock(dsListLock, t)
    /\ ret' = NoRet
    /\ UNCHANGED <<dbVars, memVars, dsMigrationLock, cfgVars, loopVars, now,
                   panic, histVars>>

\* storeJobsDS up to txn.Commit().
StoreCommit(t) ==
    /\ Running /\ thr[t].pc = "storeCommit"
    /\ LET ds == thr[t].ds
           jobList == thr[t].jobList
       IN IF ~storeJobsDSOK(jobsT[ds], jobSeq[ds], FALSE, jobList) THEN Fail("storeJobsDS")
          ELSE /\ jobsT' = [jobsT EXCEPT ![ds] = storeJobsRows(@, jobSeq[ds], FALSE, jobList)]
               /\ jobSeq' = [jobSeq EXCEPT ![ds] = storeJobsSeq(@, FALSE, jobList)]
               /\ acked' = acked \o [i \in 1..Len(jobList) |->
                                        JobRow(jobSeq[ds] + i, jobList[i].CustomVal,
                                               jobList[i].CreatedAt)]
               /\ thr' = [thr EXCEPT ![t] = [pc |-> "storeClear", ds |-> ds,
                                             n |-> Len(jobList)]]
               /\ ret' = NoRet
               /\ UNCHANGED <<statusT, journal, journalSeq, memVars, lockVars,
                              cfgVars, loopVars, now, panic, lastWritten, written>>

\* The markClearEmptyResult of storeJobsDS, then the return of Store.
StoreClear(t) ==
    /\ Running /\ thr[t].pc = "storeClear"
    /\ dsEmptyResultCache' = markClearEmptyResult(dsEmptyResultCache, thr[t].ds, {}, {}, FALSE)
    /\ dsListLock' = RUnlock(dsListLock, t)
    /\ thr' = [thr EXCEPT ![t] = IdleThread]
    /\ ret' = [op |-> "Store", n |-> thr[t].n]
    /\ UNCHANGED <<dbVars, datasetList, datasetRangeList, dsMigrationLock,
                   cfgVars, loopVars, now, panic, histVars>>

\* UpdateJobStatus: the sort, the read locks and the split of the list over
\* the datasets (the calls with rows).
UpdateLock(t) ==
    /\ Running /\ thr[t].pc = "idle"
    /\ ~dsMigrationLock.w /\ ~dsListLock.w
    /\ \E statusList \in {sl \in StatusInputs({Succeeded, Failed}) : Len(sl) = 1} :
          /\ written + Len(statusList) <= MaxCacheStatusRows
          /\ written' = written + Len(statusList)
          /\ LET sorted == SortStatusList(statusList)
                 r == updateCalls(datasetList, datasetRangeList, sorted)
             IN IF ~r.ok THEN /\ panic' = "UpdateJobStatus"
                              /\ UNCHANGED <<thr, lockVars>>
                ELSE /\ thr' = [thr EXCEPT ![t] =
                                   [pc |-> "updateCommit", k |-> 1,
                                    calls |-> SelectSeq(r.calls, LAMBDA c : Len(c.rows) > 0),
                                    customValFilters |-> TagsOf(statusList),
                                    statusList |-> statusList, ok |-> TRUE]]
                     /\ dsMigrationLock' = RLock(dsMigrationLock, t)
                     /\ dsListLock' = RLock(dsListLock, t)
                     /\ UNCHANGED panic
    /\ ret' = NoRet
    /\ UNCHANGED <<dbVars, memVars, cfgVars, loopVars, now, acked, lastWritten>>

\* updateJobStatusDS of the k-th call up to txn.Commit().
UpdateCommit(t) ==
    /\ Running /\ thr[t].pc = "updateCommit"
    /\ LET c == thr[t].calls[thr[t].k]
       IN IF c.ds \notin DOMAIN statusT \/ ~updateJobStatusDSOK(jobsT[c.ds], c.rows)
          THEN Fail("updateJobStatusDS")
          ELSE /\ statusT' = [statusT EXCEPT ![c.ds] = updateJobStatusRows(@, c.rows)]
               /\ lastWritten' = noteWritten(lastWritten, c.rows, 1)
               /\ thr' = [thr EXCEPT ![t].pc = "updateClear"]
               /\ ret' = NoRet
               /\ UNCHANGED <<jobsT, jobSeq, journal, journalSeq, memVars, lockVars,
                              cfgVars, loopVars, now, panic, acked, written>>

\* The markClearEmptyResult of updateJobStatusDS; after the last call
\* UpdateJobStatus returns, or panics on the assertion that stopped the split
\* of the list (lines 1271, 1300).
UpdateClear(t) ==
    /\ Running /\ thr[t].pc = "updateClear"
    /\ LET c == thr[t].calls[thr[t].k]
           last == thr[t].k = Len(thr[t].calls)
       IN /\ dsEmptyResultCache' = updateJobStatusCache(dsEmptyResultCache, c.ds, c.rows,
                                                       thr[t].customValFilters)
          /\ thr' = [thr EXCEPT ![t] = IF last THEN IdleThread
                                       ELSE [@ EXCEPT !.pc = "updateCommit", !.k = @ + 1]]
          /\ dsMigrationLock' = IF last THEN RUnlock(dsMigrationLock, t) ELSE dsMigrationLock
          /\ dsListLock' = IF last THEN RUnlock(dsListLock, t) ELSE dsListLock
          /\ panic' = IF last /\ ~thr[t].ok THEN "UpdateJobStatus" ELSE panic
    /\ ret' = NoRet
    /\ UNCHANGED <<dbVars, datasetList, datasetRangeList, cfgVars, loopVars,
                   now, histVars>>

\* GetUnprocessed and GetProcessed: the read locks and the start of the loop
\* over the list. stateFilter is {"NP"} for GetUnprocessed.
GetBegin(t, op, filters) ==
    /\ Running /\ thr[t].pc = "idle"
    /\ ~dsMigrationLock.w /\ ~dsListLock.w
    /\ thr' = [thr EXCEPT ![t] =
                  [pc |-> "getRead", op |-> op, customValFilters |-> filters,
                   stateFilter |-> IF op = "GetUnprocessed" THEN {"NP"} ELSE {"failed"},
                   count |-> MaxJobs, left |-> MaxJobs, dsList |-> datasetList,
                   k |-> 1, jobs |-> <<>>, read |-> <<>>]]
    /\ dsMigrationLock' = RLock(dsMigrationLock, t)
    /\ dsListLock' = RLock(dsListLock, t)
    /\ ret' = NoRet
    /\ UNCHANGED <<dbVars, memVars, cfgVars, loopVars, now, panic, histVars>>

GetLock(t) ==
    \E op \in {"GetUnprocessed", "GetProcessed"} : \E filters \in {{"a"}, Tags} :
        GetBegin(t, op, filters)

\* The return of a query, or its step to the next dataset of the list.
GetAdvance(t, jobList) ==
    LET c == thr[t]
        done == c.k = Len(c.dsList) \/ c.left = Len(jobList)
    IN /\ thr' = [thr EXCEPT ![t] =
                     IF done THEN IdleThread
                     ELSE [c EXCEPT !.pc = "getRead", !.k = @ + 1, !.read = <<>>,
                                    !.jobs = @ \o jobList, !.left = @ - Len(jobList)]]
       /\ ret' = IF done
                 THEN IF c.op = "GetUnprocessed"
                      THEN [op |-> c.op, customValFilters |-> c.customValFilters,
                            count |-> c.count, jobs |-> c.jobs \o jobList]
                      ELSE [op |-> c.op, stateFilter |-> c.stateFilter,
                            customValFilters |-> c.customValFilters,
                            count |-> c.count, jobs |-> c.jobs \o jobList]
                 ELSE NoRet
       /\ dsMigrationLock' = IF done THEN RUnlock(dsMigrationLock, t) ELSE dsMigrationLock
       /\ dsListLock' = IF done THEN RUnlock(dsListLock, t) ELSE dsListLock

\* get(Un)ProcessedJobsDS of the k-th dataset: isEmptyResult, and unless it
\* holds, the SELECT.
GetRead(t) ==
    /\ Running /\ thr[t].pc = "getRead"
    /\ LET c == thr[t]
           ds == c.dsList[c.k]
       IN IF isEmptyResult(dsEmptyResultCache, ds, c.stateFilter, c.customValFilters)
          THEN GetAdvance(t, <<>>)
          ELSE /\ thr' = [thr EXCEPT ![t] =
                     [c EXCEPT !.pc = "getMark",
                               !.read = IF c.op = "GetUnprocessed"
                                        THEN getUnprocessedQuery(jobsT[ds], statusT[ds],
                                                                 c.customValFilters, c.left)
                                        ELSE getProcessedQuery(jobsT[ds], statusT[ds], FALSE,
                                                               c.stateFilter, c.customValFilters,
                                                               c.left, now)]]
               /\ ret' = NoRet
               /\ UNCHANGED lockVars
    /\ UNCHANGED <<dbVars, memVars, cfgVars, loopVars, now, panic, histVars>>

\* The end of get(Un)ProcessedJobsDS: an empty jobList marks the cache.
GetMark(t) ==
    /\ Running /\ thr[t].pc = "getMark"
    /\ LET c == thr[t]
       IN /\ dsEmptyResultCache' =
                IF Len(c.read) = 0
                THEN markClearEmptyResult(dsEmptyResultCache, c.dsList[c.k], c.stateFilter,
                                          c.customValFilters, TRUE)
                ELSE dsEmptyResultCache
          /\ GetAdvance(t, c.read)
    /\ UNCHANGED <<dbVars, datasetList, datasetRangeList, cfgVars, loopVars,
                   now, panic, histVars>>

\* Concurrent calls on the first dataset while the maintenance loop sleeps.
NextConc ==
    \E t \in Threads :
        \/ StoreLock(t)
        \/ StoreCommit(t)
        \/ StoreClear(t)
        \/ UpdateLock(t)
        \/ UpdateCommit(t)
        \/ UpdateClear(t)
        \/ GetLock(t)
        \/ GetRead(t)
        \/ GetMark(t)

SpecConc == Init /\ [][NextConc]_vars

\* One caller that stores single jobs and updates batches of up to three
\* statuses, in any input order, step by step, with the maintenance loop.
MaxBatchJobs == 5

MaxBatchStatusRows == 4

BatchLen == 3

\* Status lists of one to BatchLen rows for distinct present jobs, in any order.
BatchInputs(template) ==
    LET ids == JobIDs(PresentJobs)
    IN {sl \in UNION {[1..n -> {StatusOf(id, template) : id \in ids}] : n \in 1..BatchLen} :
           \A i, j \in 1..Len(sl) : i # j => sl[i].JobID # sl[j].JobID}

DoStoreBatchJob ==
    /\ Len(acked) < MaxBatchJobs
    /\ \A t \in Threads : thr[t].pc = "idle"
    /\ Store(<<NewJob("a")>>)

\* UpdateJobStatus(statusList, customValFilters) on a thread: the sort, the
\* read locks and the split of the list over the datasets. The calls made
\* before a failed assertion are kept.
UpdateBegin(t, statusList, customValFilters) ==
    /\ Running /\ thr[t].pc = "idle"
    /\ ~dsMigrationLock.w /\ ~dsListLock.w
    /\ written' = written + Len(statusList)
    /\ LET sorted == SortStatusList(statusList)
           r == updateCalls(datasetList, datasetRangeList, sorted)
           calls == SelectSeq(r.calls, LAMBDA c : Len(c.rows) > 0)
       IN IF calls = <<>> THEN /\ panic' = "UpdateJobStatus"
                               /\ UNCHANGED <<thr, lockVars>>
          ELSE /\ thr' = [thr EXCEPT ![t] =
                             [pc |-> "updateCommit", k |-> 1, calls |-> calls,
                              customValFilters |-> customValFilters,
                              statusList |-> statusList, ok |-> r.ok]]
               /\ dsMigrationLock' = RLock(dsMigrationLock, t)
               /\ dsListLock' = RLock(dsListLock, t)
               /\ UNCHANGED panic
    /\ ret' = NoRet
    /\ UNCHANGED <<dbVars, memVars, cfgVars, loopVars, now, acked, lastWritten>>

BatchLock(t) ==
    \E statusList \in BatchInputs(Failed) :
        /\ written + Len(statusList) <= MaxBatchStatusRows
        /\ UpdateBegin(t, statusList, {"a"})

Caller == Min(Threads)

NextBatch ==
    \/ Maintenance
    \/ DoStoreBatchJob
    \/ BatchLock(Caller)
    \/ UpdateCommit(Caller)
    \/ UpdateClear(Caller)

SpecBatch == Init /\ [][NextBatch]_vars

\* ------------------------------------------------------ crash and Setup
MaxJournalID == 5

\* The process dies: the database stays, the memory of the process is lost.
\* The journal id caps the number of operations a run with crashes starts.
CrashBelow(maxID) ==
    /\ Running
    /\ journalSeq < maxID
    /\ pc' = "down"
    /\ datasetList' = <<>>
    /\ datasetRangeList' = <<>>
    /\ dsEmptyResultCache' = {}
    /\ dsListLock' = RWMutex
    /\ dsMigrationLock' = RWMutex
    /\ loc' = InitLoc
    /\ thr' = [t \in Threads |-> IdleThread]
    /\ ret' = NoRet
    /\ UNCHANGED <<dbVars, cfgVars, now, panic, histVars>>

Crash == CrashBelow(MaxJournalID)

\* A drop that leaves the jobs table and its sequence.
dropDSIfExists_StatusOnly(db, ds) ==
    [jobsT |-> db.jobsT, statusT |-> dropTable(db.statusT, ds), jobSeq |-> db.jobSeq]

\* DROP TABLE IF EXISTS of both tables of a dataset (dropDS(ds, true)).
dropDSIfExists(db, ds) ==
    [jobsT |-> dropTable(db.jobsT, ds), statusT |-> dropTable(db.statusT, ds),
     jobSeq |-> dropTable(db.jobSeq, ds)]

\* dropDS(ds, allowMissing), lines 582-605: [ok, db]. Without allowMissing
\* the DROP TABLE of a table that is not there fails the assertion.
dropDS(db, ds, allowMissing) ==
    [ok |-> allowMissing \/ (ds \in DOMAIN db.statusT /\ ds \in DOMAIN db.jobsT),
     db |-> dropDSIfExists(db, ds)]

\* A drop of the datasets that still have both tables only.
dropAllIfExists_SkipPartial(db, dsSeq, k) ==
    LET gone == {ds \in Range(dsSeq) : ds \in DOMAIN db.jobsT \cap DOMAIN db.statusT}
    IN [jobsT |-> [x \in DOMAIN db.jobsT \ gone |-> db.jobsT[x]],
        statusT |-> [x \in DOMAIN db.statusT \ gone |-> db.statusT[x]],
        jobSeq |-> [x \in DOMAIN db.jobSeq \ gone |-> db.jobSeq[x]]]

RECURSIVE dropAllIfExists(_, _, _)
dropAllIfExists(db, dsSeq, k) ==
    IF k > Len(dsSeq) THEN db
    ELSE dropAllIfExists(dropDSIfExists(db, dsSeq[k]), dsSeq, k + 1)

\* A recovery that takes MIGRATE_COPY as it takes MIGRATE_DEL: the sources are
\* dropped and the entry is marked done.
recoverFromJournal_CopyAsDel(j, db) ==
    LET open == {k \in DOMAIN j : ~j[k].done}
        keep(jr, out) == SelectSeq(jr, LAMBDA e : e.id # out)
    IN IF Cardinality(open) > 1
       THEN [ok |-> FALSE, db |-> db, journal |-> j]
       ELSE IF open = {} THEN [ok |-> TRUE, db |-> db, journal |-> j]
       ELSE LET e == j[CHOOSE k \in open : TRUE]
            IN IF e.operation = addDSOperation
               THEN [ok |-> TRUE, db |-> dropDSIfExists(db, e.to), journal |-> keep(j, e.id)]
               ELSE [ok |-> TRUE, db |-> dropAllIfExists(db, e.from, 1),
                     journal |-> journalMarkDone(j, e.id)]

\* A recovery that calls dropDS(ds, false): it fails on a table that is gone.
recoverFromJournal_Strict(j, db) ==
    LET open == {k \in DOMAIN j : ~j[k].done}
        keep(jr, out) == SelectSeq(jr, LAMBDA e : e.id # out)
    IN IF Cardinality(open) > 1
       THEN [ok |-> FALSE, db |-> db, journal |-> j]
       ELSE IF open = {} THEN [ok |-> TRUE, db |-> db, journal |-> j]
       ELSE LET e == j[CHOOSE k \in open : TRUE]
            IN IF e.operation \in {addDSOperation, migrateCopyOperation}
               THEN [ok |-> dropDS(db, e.to, FALSE).ok,
                     db |-> dropDSIfExists(db, e.to), journal |-> keep(j, e.id)]
               ELSE [ok |-> \A i \in DOMAIN e.from :
                               dropDS(dropAllIfExists(db, SubSeq(e.from, 1, i - 1), 1),
                                      e.from[i], FALSE).ok,
                     db |-> dropAllIfExists(db, e.from, 1),
                     journal |-> journalMarkDone(j, e.id)]

\* recoverFromJournal: the entry that is not done, if any, is undone (ADD_DS
\* and MIGRATE_COPY: the destination is dropped and the entry deleted) or
\* redone (MIGRATE_DEL: the sources are dropped and the entry marked done).
\* [ok, jobsT, statusT, jobSeq, journal]
recoverFromJournal(j, db) ==
    LET open == {k \in DOMAIN j : ~j[k].done}
        keep(jr, out) == SelectSeq(jr, LAMBDA e : e.id # out)
    IN IF Cardinality(open) > 1
       THEN [ok |-> FALSE, db |-> db, journal |-> j]
       ELSE IF open = {} THEN [ok |-> TRUE, db |-> db, journal |-> j]
       ELSE LET e == j[CHOOSE k \in open : TRUE]
            IN IF e.operation \in {addDSOperation, migrateCopyOperation}
               THEN [ok |-> TRUE, db |-> dropDSIfExists(db, e.to), journal |-> keep(j, e.id)]
               ELSE [ok |-> TRUE, db |-> dropAllIfExists(db, e.from, 1),
                     journal |-> journalMarkDone(j, e.id)]

\* Setup(clearAll = false, prefix, retention) after a crash: recoverFromJournal,
\* whose SELECT fails when there is no journal table, getDSList(true),
\* getDSRangeList(true); with no dataset left createJournal fails on the
\* journal that exists. Then mainCheckLoop starts.
Setup ==
    /\ panic = "" /\ pc = "down"
    /\ LET rec == recoverFromJournal(journal, [jobsT |-> jobsT, statusT |-> statusT,
                                               jobSeq |-> jobSeq])
           dList == getDSList(rec.db.jobsT)
           failed == IF ~journalTable \/ ~rec.ok THEN "recoverFromJournal"
                     ELSE IF ~getDSListOK(rec.db.jobsT, rec.db.statusT) THEN "getDSList"
                     ELSE IF ~getDSRangeListOK(dList, rec.db.jobsT) THEN "getDSRangeList"
                     ELSE IF Len(dList) = 0 THEN "createJournal"
                     ELSE ""
       IN /\ jobsT' = rec.db.jobsT
          /\ statusT' = rec.db.statusT
          /\ jobSeq' = rec.db.jobSeq
          /\ journal' = rec.journal
          /\ panic' = failed
          /\ IF failed # "" THEN UNCHANGED <<datasetList, datasetRangeList, pc, ret>>
             ELSE /\ datasetList' = dList
                  /\ datasetRangeList' = getDSRangeList(dList, rec.db.jobsT)
                  /\ pc' = "sleep"
                  /\ ret' = [op |-> "Setup"]
    /\ UNCHANGED <<journalSeq, dsEmptyResultCache, lockVars, cfgVars, loc, thr,
                   now, histVars>>

\* Store and UpdateJobStatus calls and the maintenance loop, with crashes of
\* the process at any point and its restart.
NextCrash ==
    \/ Maintenance
    \/ DoStore
    \/ DoUpdateJobStatus
    \/ Crash
    \/ Setup

SpecCrash == Init /\ [][NextCrash]_vars

\* ------------------------------------------------------ the first Setup
\* A database without any table of the prefix, and no process.
InitFresh ==
    /\ jobsT = [ds \in {} |-> {}]
    /\ statusT = [ds \in {} |-> <<>>]
    /\ jobSeq = [ds \in {} |-> 0]
    /\ journal = <<>>
    /\ journalSeq = 0
    /\ datasetList = <<>>
    /\ datasetRangeList = <<>>
    /\ dsEmptyResultCache = {}
    /\ dsListLock = RWMutex
    /\ dsMigrationLock = RWMutex
    /\ dsRetentionPeriod = 0
    /\ maxDSSize = dsSizeOne
    /\ dbHandle = "open"
    /\ journalTable = FALSE
    /\ pc = "down"
    /\ loc = InitLoc
    /\ thr = [t \in Threads |-> IdleThread]
    /\ now = 1
    /\ ret = NoRet
    /\ panic = ""
    /\ acked = <<>>
    /\ lastWritten = <<>>
    /\ written = 0

\* Setup(clearAll = true, prefix, retention), lines 207-209: dropAllDS reads
\* the list from the database and drops every dataset. It is called here
\* before any job is stored.
SetupDropAll ==
    /\ panic = "" /\ pc = "down"
    /\ Len(acked) = 0
    /\ IF ~getDSListOK(jobsT, statusT) THEN Fail("dropAllDS")
       ELSE /\ jobsT' = [ds \in {} |-> {}]
            /\ statusT' = [ds \in {} |-> <<>>]
            /\ jobSeq' = [ds \in {} |-> 0]
            /\ datasetList' = <<>>
            /\ datasetRangeList' = <<>>
            /\ pc' = "delJournal"
            /\ ret' = NoRet
            /\ UNCHANGED <<journal, journalSeq, dsEmptyResultCache, lockVars, cfgVars,
                           loc, thr, now, panic, histVars>>

\* delJournal: DROP TABLE IF EXISTS <prefix>_journal, and with the table its
\* sequence. getDSList(true) and getDSRangeList(true) find no dataset.
SetupDelJournal ==
    /\ Running /\ pc = "delJournal"
    /\ journalTable' = FALSE
    /\ journal' = <<>>
    /\ journalSeq' = 0
    /\ pc' = "createJournal"
    /\ ret' = NoRet
    /\ UNCHANGED <<jobsT, statusT, jobSeq, memVars, lockVars, dsRetentionPeriod,
                   maxDSSize, dbHandle, loc, thr, now, panic, histVars>>

\* Lines 213-216 with no dataset: createJournal, whose CREATE TABLE fails on a
\* journal that exists, and the call of addNewDS(true, dataSetT{}), which
\* takes the steps of the roll-over of the loop (it needs no lock, no other
\* thread runs yet; the loop starts when it returns).
SetupCreateJournal ==
    /\ Running /\ pc = "createJournal"
    /\ IF journalTable THEN Fail("createJournal")
       ELSE /\ journalTable' = TRUE
            /\ journal' = <<>>
            /\ journalSeq' = 0
            /\ loc' = [InitLoc EXCEPT !.appendLast = TRUE]
            /\ pc' = "addNewDS"
            /\ ret' = NoRet
            /\ UNCHANGED <<jobsT, statusT, jobSeq, memVars, lockVars, dsRetentionPeriod,
                           maxDSSize, dbHandle, thr, now, panic, histVars>>

\* Store calls once Setup has returned.
DoStoreUp ==
    /\ Len(datasetList) > 0
    /\ DoStore

\* The first Setup with clearAll = true on a database without tables, Store
\* calls and the loop, crashes of the process at any point, and Setup with
\* clearAll = true or false after a crash.
NextSetup ==
    \/ SetupDropAll
    \/ SetupDelJournal
    \/ SetupCreateJournal
    \/ LoopStart
    \/ AddNewDSBegin
    \/ CreateJobsTable
    \/ CreateStatusTable
    \/ AddNewDSRefresh
    \/ AddNewDSDone
    \/ MigrateSelect
    \/ DoStoreUp
    \/ Crash
    \/ Setup

SpecSetup == InitFresh /\ [][NextSetup]_vars

\* Datasets that are full with three jobs (maxDSSize = dsSizeTwo): Store calls
\* of three jobs, UpdateJobStatus calls for every job of a dataset (all
\* succeeded, or all but the newest, which failed) or for its newest job
\* alone, the maintenance loop, crashes and restarts.
RetryBatch == 3

MaxRetryJobs == 6

MaxRetryStatusRows == 7

MaxRetryJournalID == 6

InitRetry == InitSized(0, dsSizeTwo)

DoStoreBatch ==
    \E jobList \in {jl \in StoreInputs({"a"}, RetryBatch) : Len(jl) = RetryBatch} :
        /\ Len(acked) + Len(jobList) <= MaxRetryJobs
        /\ Store(jobList)

\* A status for every job of the dataset, in job_id order: the newest job gets
\* the template t, the others succeeded.
DatasetStatuses(ds, t) ==
    LET ids == SortInts(JobIDs(jobsT[ds]))
    IN [i \in 1..Len(ids) |-> StatusOf(ids[i], IF i = Len(ids) THEN t ELSE Succeeded)]

DoUpdateDataset ==
    /\ ~dsMigrationLock.w /\ ~dsListLock.w
    /\ \E ds \in Range(datasetList) \cap DOMAIN jobsT :
          /\ jobsT[ds] # {}
          /\ \E statusList \in {DatasetStatuses(ds, Succeeded), DatasetStatuses(ds, Failed),
                                 <<StatusOf(Max(JobIDs(jobsT[ds])), Failed)>>} :
                /\ written + Len(statusList) <= MaxRetryStatusRows
                /\ UpdateJobStatus(statusList, {"a"})

CrashRetry == CrashBelow(MaxRetryJournalID)

NextRetry ==
    \/ Maintenance
    \/ DoStoreBatch
    \/ DoUpdateDataset
    \/ CrashRetry
    \/ Setup

SpecRetry == InitRetry /\ [][NextRetry]_vars

\* ------------------------------------------------- the locks, call by call
\* The API calls and the maintenance loop with every RLock, RUnlock and Lock
\* a step of its own. A Lock() that finds the lock held waits and keeps the
\* readers that arrive after it out.
MaxLockJobs == 3

\* The loop between journalMarkStart(MIGRATE_COPY) and its journalMarkDone.
InMigrateCopy == pc \in {"copyJobs", "copyStatus", "copyDone"}

MaxLockStatusRows == 3

ApiOps == {"Store", "UpdateJobStatus", "GetUnprocessed", "GetProcessed"}

\* The locks a call takes, in the order of its RLock() statements (lines
\* 1257-1258, 1315, 1348-1349, 1387-1388); here a call that takes the list
\* lock first.
lockOrder_ListFirst(op) ==
    IF op = "Store" THEN <<"dsListLock">> ELSE <<"dsListLock", "dsMigrationLock">>

\* Here a Store that takes both locks, as the other calls do.
lockOrder_StoreBoth(op) == <<"dsMigrationLock", "dsListLock">>

lockOrder(op) ==
    IF op = "Store" THEN <<"dsListLock">> ELSE <<"dsMigrationLock", "dsListLock">>

LockOf(name) == IF name = "dsListLock" THEN dsListLock ELSE dsMigrationLock

SetLock(name, l) ==
    /\ dsListLock' = IF name = "dsListLock" THEN l ELSE dsListLock
    /\ dsMigrationLock' = IF name = "dsMigrationLock" THEN l ELSE dsMigrationLock

\* The calls of an operation that are between their call and their body.
Calling(op) == {t \in Threads : thr[t].pc \in {"rlock", "body"} /\ thr[t].op = op}

\* A caller enters an API function; inCopy records whether the maintenance loop
\* is copying jobs (migrateJobs, lines 1075-1080) at that moment. The bounds on the jobs and the status
\* rows are applied here, so that a call that holds a lock always returns.
ApiCall(t) ==
    /\ Running /\ thr[t].pc = "idle"
    /\ \E op \in ApiOps :
          /\ op = "Store" => Len(acked) + Cardinality(Calling(op)) < MaxLockJobs
          /\ op = "UpdateJobStatus" => written + Cardinality(Calling(op)) < MaxLockStatusRows
          /\ thr' = [thr EXCEPT ![t] = [pc |-> "rlock", op |-> op, k |-> 1,
                                        inCopy |-> InMigrateCopy]]
    /\ ret' = NoRet
    /\ UNCHANGED <<dbVars, memVars, lockVars, cfgVars, loopVars, now, panic, histVars>>

\* The next RLock() of a call: it waits while the lock is write-held or a
\* Lock() is waiting.
ApiRLock(t) ==
    /\ Running /\ thr[t].pc = "rlock"
    /\ LET order == lockOrder(thr[t].op)
           name == order[thr[t].k]
       IN /\ ~LockOf(name).w /\ ~LockOf(name).p
          /\ SetLock(name, RLock(LockOf(name), t))
          /\ thr' = [thr EXCEPT ![t] = IF thr[t].k = Len(order)
                                       THEN [pc |-> "body", op |-> thr[t].op,
                                             inCopy |-> thr[t].inCopy]
                                       ELSE [@ EXCEPT !.k = @ + 1]]
    /\ ret' = NoRet
    /\ UNCHANGED <<dbVars, memVars, cfgVars, loopVars, now, panic, histVars>>

\* The call between its RLocks and its deferred RUnlocks.
ApiBody(t) ==
    /\ thr[t].pc = "body"
    /\ \/ /\ thr[t].op = "Store"
          /\ StoreBody(<<NewJob("a")>>)
       \/ /\ thr[t].op = "UpdateJobStatus"
          /\ \E statusList \in {sl \in StatusInputs({Failed}) : Len(sl) = 1} :
                UpdateJobStatusBody(statusList, {"a"})
       \/ /\ thr[t].op = "GetUnprocessed"
          /\ GetUnprocessedBody({"a"}, MaxJobs)
       \/ /\ thr[t].op = "GetProcessed"
          /\ GetProcessedBody({"failed"}, {"a"}, MaxJobs)
    /\ thr' = [thr EXCEPT ![t] = [pc |-> "runlock", op |-> thr[t].op,
                                  k |-> Len(lockOrder(thr[t].op)),
                                  inCopy |-> thr[t].inCopy]]
    /\ UNCHANGED lockVars

\* The deferred RUnlock() calls, the last lock taken first.
ApiRUnlock(t) ==
    /\ Running /\ thr[t].pc = "runlock"
    /\ LET name == lockOrder(thr[t].op)[thr[t].k]
       IN SetLock(name, RUnlock(LockOf(name), t))
    /\ thr' = [thr EXCEPT ![t] = IF thr[t].k = 1 THEN IdleThread ELSE [@ EXCEPT !.k = @ - 1]]
    /\ UNCHANGED <<dbVars, memVars, cfgVars, loopVars, now, ret, panic, histVars>>

\* The lock the maintenance loop is about to take with Lock(): lines 1040 and
\* 1068 (addNewDS), 1047, 1096 (postMigrateDeleteDS); "" elsewhere.
LoopWants ==
    IF pc = "addNewDS" \/ (pc = "dropStatus" /\ loc.i = 1) THEN "dsListLock"
    ELSE IF pc = "migrate" THEN "dsMigrationLock"
    ELSE ""

\* A Lock() of the maintenance loop that finds the lock held: it waits.
LoopLockWait ==
    /\ Running /\ LoopWants # ""
    /\ LockOf(LoopWants).w \/ LockOf(LoopWants).r # {}
    /\ ~LockOf(LoopWants).p
    /\ SetLock(LoopWants, [LockOf(LoopWants) EXCEPT !.p = TRUE])
    /\ ret' = NoRet
    /\ UNCHANGED <<dbVars, memVars, cfgVars, loopVars, thr, now, panic, histVars>>

NextLocks ==
    \/ Maintenance
    \/ LoopLockWait
    \/ \E t \in Threads :
          \/ ApiCall(t)
          \/ ApiRLock(t)
          \/ ApiBody(t)
          \/ ApiRUnlock(t)

SpecLocks == Init /\ [][NextLocks]_vars

\* ------------------------------------------------- queries with a count
\* Atomic calls of the whole API for jobs of one tag, with the maintenance
\* loop and the clock: jobs that fail with a retry_time ahead of the first
\* clock value, and queries that ask for no job, for fewer jobs than there are
\* and for more.
MaxExactJobs == 3

MaxExactStatusRows == 3

MaxCount == 2

DoStoreOne ==
    /\ Len(acked) < MaxExactJobs
    /\ Store(<<NewJob("a")>>)

DoUpdateOne ==
    /\ written < MaxExactStatusRows
    /\ \E statusList \in {sl \in StatusInputs({FailedLater}) : Len(sl) = 1} :
          UpdateJobStatus(statusList, {"a"})

DoGetUnprocessedCount == \E count \in 0..MaxCount : GetUnprocessed({"a"}, count)

DoGetProcessedCount == \E count \in 0..MaxCount : GetProcessed({"failed"}, {"a"}, count)

NextExact ==
    \/ Maintenance
    \/ DoStoreOne
    \/ DoUpdateOne
    \/ DoGetUnprocessedCount
    \/ DoGetProcessedCount
    \/ Tick

SpecExact == Init /\ [][NextExact]_vars

\* Stores and updates of single jobs with the maintenance loop, the goroutine
\* of mainCheckLoop being scheduled again and again: a step of the loop that
\* can be taken is taken.
DoUpdateLive ==
    /\ written < MaxExactStatusRows
    /\ \E statusList \in {sl \in StatusInputs({Succeeded, Failed}) : Len(sl) = 1} :
          UpdateJobStatus(statusList, {"a"})

NextLive ==
    \/ Maintenance
    \/ DoStoreOne
    \/ DoUpdateLive

SpecLive == Init /\ [][NextLive]_vars /\ WF_vars(Maintenance)

\* A catalog of up to MaxSelectDS level-0 datasets as the callers can leave it
\* between two iterations of the loop: every dataset but the newest holds two
\* jobs, which are both succeeded ("done"), failed three times in all
\* ("retried") or without a status ("untouched"); at most MaxOpenDS datasets
\* are not "done", and the newest dataset holds up to MaxNewestJobs jobs
\* without a status. Then the loop runs while the callers are quiet.
MaxSelectDS == 12

MaxNewestJobs == 2

MaxOpenDS == 2

ShardKinds == {"done", "retried", "untouched"}

ShardStatus(kind, n) ==
    IF kind = "done"
    THEN <<StatusRow(StatusOf(2 * n - 1, Succeeded)), StatusRow(StatusOf(2 * n, Succeeded))>>
    ELSE IF kind = "retried"
    THEN <<StatusRow(StatusOf(2 * n - 1, Failed)), StatusRow(StatusOf(2 * n - 1, Failed)),
           StatusRow(StatusOf(2 * n, Failed))>>
    ELSE <<>>

\* born[i] is the time the jobs of the i-th dataset were stored at; the clock
\* stands at the latest of them.
InitCatalog(n, kinds, m, born, retention) ==
    LET idx == {<<i>> : i \in 1..n}
    IN /\ jobsT = [ds \in idx |-> IF ds[1] = n
                                 THEN {JobRow(2 * (n - 1) + k, "a", born[n]) : k \in 1..m}
                                 ELSE {JobRow(2 * ds[1] - 1, "a", born[ds[1]]),
                                       JobRow(2 * ds[1], "a", born[ds[1]])}]
       /\ statusT = [ds \in idx |-> IF ds[1] = n THEN <<>> ELSE ShardStatus(kinds[ds[1]], ds[1])]
       /\ jobSeq = [ds \in idx |-> IF ds[1] = n THEN 2 * (n - 1) + m ELSE 2 * ds[1]]
       /\ journal = [i \in 1..n |-> [id |-> i, operation |-> addDSOperation, done |-> TRUE,
                                     from |-> <<>>, to |-> <<i>>]]
       /\ journalSeq = n
       /\ datasetList = [i \in 1..n |-> <<i>>]
       /\ datasetRangeList = [i \in 1..(n - 1) |->
                                 [minJobID |-> 2 * i - 1, maxJobID |-> 2 * i, ds |-> <<i>>]]
       /\ dsEmptyResultCache = {}
       /\ dsListLock = RWMutex
       /\ dsMigrationLock = RWMutex
       /\ dsRetentionPeriod = retention
       /\ maxDSSize = dsSizeOne
       /\ dbHandle = "open"
       /\ journalTable = TRUE
       /\ pc = "sleep"
       /\ loc = InitLoc
       /\ thr = [t \in Threads |-> IdleThread]
       /\ now = born[n]
       /\ ret = NoRet
       /\ panic = ""
       /\ acked = [k \in 1..(2 * (n - 1) + m) |-> JobRow(k, "a", born[(k + 1) \div 2])]
       /\ lastWritten = [id \in {k \in 1..(2 * (n - 1)) : kinds[(k + 1) \div 2] # "untouched"} |->
                            StatusOf(id, IF kinds[(id + 1) \div 2] = "done"
                                         THEN Succeeded ELSE Failed)]
       /\ written = 0

InitSelect ==
    \E n \in 1..MaxSelectDS :
        \E kinds \in [1..(n - 1) -> ShardKinds] :
            /\ Cardinality({i \in 1..(n - 1) : kinds[i] # "done"}) <= MaxOpenDS
            /\ \E m \in 0..MaxNewestJobs : InitCatalog(n, kinds, m, [i \in 1..n |-> 1], 0)

NextSelect == Maintenance

SpecSelect == InitSelect /\ [][NextSelect]_vars

\* checkIfMigrateDS at the thresholds of the source, on one dataset of up to
\* MaxThresJobs jobs created at time 1: a job has no status, one failed row,
\* one succeeded row or two succeeded rows, and the first job up to
\* MaxExtraRows failed rows more; the retention period is 0 or ThresRetention.
jobStatusMigrateThresFull == 5

MaxThresJobs == 6

MaxExtraRows == 6

ThresRetention == 2

JobKinds == {"none", "failed", "succeeded", "succeeded twice"}

RowsOfKind(kind, id) ==
    IF kind = "failed" THEN <<StatusRow(StatusOf(id, Failed))>>
    ELSE IF kind = "succeeded" THEN <<StatusRow(StatusOf(id, Succeeded))>>
    ELSE IF kind = "succeeded twice"
    THEN <<StatusRow(StatusOf(id, Succeeded)), StatusRow(StatusOf(id, Succeeded))>>
    ELSE <<>>

RECURSIVE ThresRows(_, _)
ThresRows(kinds, k) ==
    IF k = 0 THEN <<>> ELSE ThresRows(kinds, k - 1) \o RowsOfKind(kinds[k], k)

InitThres ==
    \E n \in 0..MaxThresJobs :
        \E kinds \in [1..n -> JobKinds] :
            \E extra \in 0..(IF n = 0 THEN 0 ELSE MaxExtraRows) :
                \E retention \in {0, ThresRetention} :
                    \E clock \in {1, 1 + ThresRetention} :
                        /\ jobsT = (<<1>> :> {JobRow(k, "a", 1) : k \in 1..n})
                        /\ statusT = (<<1>> :> (ThresRows(kinds, n) \o
                                         [i \in 1..extra |-> StatusRow(StatusOf(1, Failed))]))
                        /\ jobSeq = (<<1>> :> n)
                        /\ journal = <<[id |-> 1, operation |-> addDSOperation, done |-> TRUE,
                                        from |-> <<>>, to |-> <<1>>]>>
                        /\ journalSeq = 1
                        /\ datasetList = <<(<<1>>)>>
                        /\ datasetRangeList = <<>>
                        /\ dsEmptyResultCache = {}
                        /\ dsListLock = RWMutex
                        /\ dsMigrationLock = RWMutex
                        /\ dsRetentionPeriod = retention
                        /\ maxDSSize = dsSizeOne
                        /\ dbHandle = "open"
                        /\ journalTable = TRUE
                        /\ pc = "sleep"
                        /\ loc = InitLoc
                        /\ thr = [t \in Threads |-> IdleThread]
                        /\ now = clock
                        /\ ret = NoRet
                        /\ panic = ""
                        /\ acked = [k \in 1..n |-> JobRow(k, "a", 1)]
                        /\ lastWritten = [id \in {k \in 1..n : kinds[k] # "none"} |->
                                             StatusOf(id, IF kinds[id] = "failed"
                                                          THEN Failed ELSE Succeeded)]
                        /\ written = 0

\* jd.checkIfMigrateDS(ds) of the dataset, as the loop calls it.
CheckIfMigrate ==
    /\ ret = NoRet
    /\ \E ds \in Range(datasetList) :
          LET chk == checkIfMigrateDSAt(jobsT[ds], statusT[ds], dsRetentionPeriod, now,
                                        jobStatusMigrateThresFull)
          IN ret' = [op |-> "checkIfMigrateDS", ds |-> ds,
                     ifMigrate |-> chk[1], remCount |-> chk[2]]
    /\ UNCHANGED <<dbVars, memVars, lockVars, cfgVars, loopVars, thr, now, panic, histVars>>

NextThres == CheckIfMigrate

SpecThres == InitThres /\ [][NextThres]_vars

\* A catalog of up to MaxRetainDS datasets whose jobs were stored at time 1
\* or 2 (later datasets never before earlier ones), with a retention period
\* of RetainPeriod ticks; then the loop runs and the clock ticks.
RetainPeriod == 2

MaxRetainDS == 4

StoreTimes == 1..2

InitRetain ==
    \E n \in 1..MaxRetainDS :
        \E kinds \in [1..(n - 1) -> ShardKinds] :
            \E born \in [1..n -> StoreTimes] :
                /\ \A i \in 1..(n - 1) : born[i] <= born[i + 1]
                /\ \E m \in 0..MaxNewestJobs : InitCatalog(n, kinds, m, born, RetainPeriod)

NextRetain == Maintenance \/ Tick

SpecRetain == InitRetain /\ [][NextRetain]_vars

\* A catalog of up to MaxClearDS datasets while the loop sleeps: a caller that
\* stores single jobs, updates single statuses step by step with no tag, one
\* tag or both, and queries by one tag and one state.
MaxClearDS == 2

MaxClearJobs == 3

MaxClearStatusRows == 1

InitClear ==
    \E n \in 1..MaxClearDS :
        \E kinds \in [1..(n - 1) -> ShardKinds] :
            InitCatalog(n, kinds, 0, [i \in 1..n |-> 1], 0)

DoStoreClear ==
    /\ Len(acked) < MaxClearJobs
    /\ \A t \in Threads : thr[t].pc = "idle"
    /\ Store(<<NewJob("a")>>)

ClearLock(t) ==
    \E statusList \in {sl \in StatusInputs({Succeeded, Failed}) : Len(sl) = 1} :
        \E customValFilters \in {{}, {"a"}, Tags} :
            /\ written + Len(statusList) <= MaxClearStatusRows
            /\ UpdateBegin(t, statusList, customValFilters)

DoGetUnprocessedClear ==
    /\ \A t \in Threads : thr[t].pc = "idle"
    /\ \E tag \in Tags : GetUnprocessed({tag}, MaxJobs)

DoGetProcessedClear ==
    /\ \A t \in Threads : thr[t].pc = "idle"
    /\ \E tag \in Tags : \E state \in {"failed", "succeeded"} :
          GetProcessed({state}, {tag}, MaxJobs)

NextClear ==
    \/ DoStoreClear
    \/ ClearLock(Caller)
    \/ UpdateCommit(Caller)
    \/ UpdateClear(Caller)
    \/ DoGetUnprocessedClear
    \/ DoGetProcessedClear

SpecClear == InitClear /\ [][NextClear]_vars

\* ------------------------------------------------- latest status
\* Atomic calls with the maintenance loop at one clock value: jobs of two
\* tags, several status rows for a job with a retry_time before the clock
\* value or after it, and GetProcessed with an empty or a non-empty list of
\* states and of tags.
MaxLatestJobs == 2

MaxLatestStatusRows == 3

LatestStateFilters == {{}, {"failed"}}

LatestTagFilters == {{}, {"a"}}

DoStoreLatest == StoreTagged(MaxLatestJobs)

DoUpdateLatest ==
    /\ ~dsMigrationLock.w /\ ~dsListLock.w
    /\ written < MaxLatestStatusRows
    /\ \E statusList \in {sl \in StatusInputs({Succeeded, Failed, FailedLater}) : Len(sl) = 1} :
          UpdateJobStatus(statusList, Tags)

DoGetProcessedLatest ==
    \E stateFilter \in LatestStateFilters : \E filters \in LatestTagFilters :
        GetProcessed(stateFilter, filters, MaxLatestJobs)

NextLatest ==
    \/ Maintenance
    \/ DoStoreLatest
    \/ DoUpdateLatest
    \/ DoGetProcessedLatest

SpecLatest == Init /\ [][NextLatest]_vars

\* ------------------------------------------------- TearDown
\* TearDown (lines 223-225): jd.dbHandle.Close() and nothing else; the
\* goroutine of mainCheckLoop is neither told to stop nor waited for. Calls
\* of the API after TearDown are not modelled.
TearDown ==
    /\ Running
    /\ dbHandle' = "closed"
    /\ ret' = [op |-> "TearDown"]
    /\ UNCHANGED <<dbVars, memVars, lockVars, dsRetentionPeriod, maxDSSize,
                   journalTable, loopVars, thr, now, panic, histVars>>

\* mainCheckLoop on a closed handle: for {} has no exit (lines 1027-1029), and
\* the next statement of the loop on jd.dbHandle, wherever the loop is,
\* returns the error of a closed database to jd.assertError, which panics.
LoopAfterClose ==
    /\ panic = "" /\ pc # "down"
    /\ dbHandle = "closed"
    /\ Fail("mainCheckLoop")

NextTearDown ==
    \/ Maintenance
    \/ DoStore
    \/ DoUpdateJobStatus
    \/ TearDown
    \/ LoopAfterClose

SpecTearDown == Init /\ [][NextTearDown]_vars

\* ------------------------------------------------- queries and the loop
\* One caller whose GetUnprocessed and GetProcessed calls run step by step
\* under their read locks, atomic Store and UpdateJobStatus calls of other
\* callers, and the maintenance loop.
MaxSwitchJobs == 3

MaxSwitchStatusRows == 3

DoStoreSwitch ==
    /\ Len(acked) < MaxSwitchJobs
    /\ Store(<<NewJob("a")>>)

DoUpdateSwitch ==
    /\ ~dsMigrationLock.w /\ ~dsListLock.w
    /\ written < MaxSwitchStatusRows
    /\ \E statusList \in {sl \in StatusInputs({Succeeded, Failed}) : Len(sl) = 1} :
          UpdateJobStatus(statusList, {"a"})

SwitchLock(t) == \E op \in {"GetUnprocessed", "GetProcessed"} : GetBegin(t, op, {"a"})

NextSwitch ==
    \/ Maintenance
    \/ DoStoreSwitch
    \/ DoUpdateSwitch
    \/ SwitchLock(Caller)
    \/ GetRead(Caller)
    \/ GetMark(Caller)

SpecSwitch == Init /\ [][NextSwitch]_vars

\* ------------------------------------------------- empty status lists
\* The calls of Spec and UpdateJobStatus calls with an empty status list.
DoUpdateEmpty ==
    /\ ~dsMigrationLock.w /\ ~dsListLock.w
    /\ UpdateJobStatus(<<>>, {"a"})

NextEmpty ==
    \/ Maintenance
    \/ DoStore
    \/ DoUpdateJobStatus
    \/ DoUpdateEmpty

SpecEmpty == Init /\ [][NextEmpty]_vars

\* ------------------------------------------------- state filters
\* Atomic calls on the first dataset while the maintenance loop sleeps, with
\* GetProcessed given state names of the enumeration, the marker NP and a name
\* that is neither.
MaxFilterJobs == 2

MaxFilterStatusRows == 2

StateFilters == {{"failed"}, {"NP"}, {"failed", "NP"}, {"done"}}

DoStoreFilter ==
    /\ Len(acked) < MaxFilterJobs
    /\ Store(<<NewJob("a")>>)

DoUpdateFilter ==
    /\ written < MaxFilterStatusRows
    /\ \E statusList \in {sl \in StatusInputs({Succeeded, Failed}) : Len(sl) = 1} :
          UpdateJobStatus(statusList, {"a"})

DoGetUnprocessedOne == GetUnprocessed({"a"}, 1)

DoGetProcessedFilter ==
    \E stateFilter \in StateFilters : \E count \in {0, 1} :
        GetProcessed(stateFilter, {"a"}, count)

NextFilter ==
    \/ DoStoreFilter
    \/ DoUpdateFilter
    \/ DoGetUnprocessedOne
    \/ DoGetProcessedFilter

SpecFilter == Init /\ [][NextFilter]_vars

\* ============================================================ properties
\* Helpers of the properties, stated without the operators of the model.
FinalStates == {"succeeded", "aborted"}

RowsOf(st, id) == {i \in 1..Len(st) : st[i].job_id = id}

\* The row with the maximum id among the status rows of a job.
LastRowOf(st, id) == st[Max(RowsOf(st, id))]

\* The jobs of a dataset that are live: no status row, or a latest status that
\* is not final.
LiveJobsOf(jobs, st) ==
    {j \in jobs : RowsOf(st, j.job_id) = {} \/
                  LastRowOf(st, j.job_id).job_state \notin FinalStates}

\* The datasets the delete phase of the running compaction still has to drop.
StillToDrop == {loc.migrateFrom[k] : k \in loc.i..Len(loc.migrateFrom)}

\* C2: when the maintenance loop drops datasets without copying (its live
\* count is not positive), no dataset it drops holds a live job.
C2_DeleteOnlyDropsNoLiveJob ==
    (pc = "dropStatus" /\ loc.liveCount <= 0) =>
        \A ds \in StillToDrop : LiveJobsOf(jobsT[ds], statusT[ds]) = {}

\* C3: after migrateJobs of every source, the destination holds exactly the
\* live jobs of the sources under their job ids, one status row for each of
\* them that had a status, equal to its latest status in the source, and none
\* for the others; no job whose latest status is final is in the destination.
C3_MigrateCopiesLiveJobs ==
    pc = "copyDone" =>
        LET D == loc.migrateTo
            srcs == Range(loc.migrateFrom)
        IN /\ jobsT[D] = UNION {LiveJobsOf(jobsT[S], statusT[S]) : S \in srcs}
           /\ \A S \in srcs : \A j \in LiveJobsOf(jobsT[S], statusT[S]) :
                 IF RowsOf(statusT[S], j.job_id) = {}
                 THEN RowsOf(statusT[D], j.job_id) = {}
                 ELSE /\ Cardinality(RowsOf(statusT[D], j.job_id)) = 1
                      /\ LastRowOf(statusT[D], j.job_id) = LastRowOf(statusT[S], j.job_id)
           /\ \A i \in 1..Len(statusT[D]) : statusT[D][i].job_id \in JobIDs(jobsT[D])
           /\ \A S \in srcs : \A j \in jobsT[S] :
                 (RowsOf(statusT[S], j.job_id) # {} /\
                  LastRowOf(statusT[S], j.job_id).job_state \in FinalStates)
                    => j.job_id \notin JobIDs(jobsT[D])

\* A compaction that copied a job with its status and left a finished job out.
C3_Witness ==
    /\ pc = "copyDone"
    /\ Len(statusT[loc.migrateTo]) > 0
    /\ \E S \in Range(loc.migrateFrom) : jobsT[S] # LiveJobsOf(jobsT[S], statusT[S])

\* The datasets of the in-memory list that hold the job id.
HoldersOf(id) == {ds \in Range(datasetList) : id \in JobIDs(jobsT[ds])}

\* The status row the caller wrote, as the columns of the status table.
WrittenRow(s) ==
    [job_id |-> s.JobID, job_state |-> s.JobState, attempt |-> s.AttemptNum,
     exec_time |-> s.ExecTime, retry_time |-> s.RetryTime,
     error_code |-> s.ErrorCode, error_response |-> s.ErrorResponse]

\* C4: whenever the list is not being rewritten, every stored job that was
\* never given a status is in exactly one dataset of the in-memory list,
\* without a status row, and every job whose last written status is not final
\* is in exactly one dataset of the list with that status as its latest row.
C4_ScanReconstructsLastWritten ==
    ~dsListLock.w =>
        /\ \A k \in 1..Len(acked) :
              acked[k].job_id \notin DOMAIN lastWritten =>
                 /\ Cardinality(HoldersOf(acked[k].job_id)) = 1
                 /\ \A ds \in HoldersOf(acked[k].job_id) :
                       /\ acked[k] \in jobsT[ds]
                       /\ RowsOf(statusT[ds], acked[k].job_id) = {}
        /\ \A id \in DOMAIN lastWritten :
              lastWritten[id].JobState \notin FinalStates =>
                 /\ Cardinality(HoldersOf(id)) = 1
                 /\ \A ds \in HoldersOf(id) :
                       /\ RowsOf(statusT[ds], id) # {}
                       /\ LastRowOf(statusT[ds], id) = WrittenRow(lastWritten[id])

\* C5: a Store gives ids above every id given before and above every id of
\* the older datasets; the first job of a dataset added by a roll-over gets
\* the id after the last one stored before it; and no Store happens while
\* addNewDS is between its journal entry and its Unlock.
C5_JobIDsIncrease ==
    [][Len(acked') > Len(acked) =>
          LET ds == datasetList[Len(datasetList)]
              first == acked'[Len(acked) + 1].job_id
          IN /\ \A k \in 2..Len(acked') : acked'[k].job_id > acked'[k - 1].job_id
             /\ \A k \in (Len(acked) + 1)..Len(acked') :
                   /\ acked'[k] \in jobsT'[ds]
                   /\ \A old \in Range(datasetList) \ {ds} :
                         \A j \in jobsT[old] : acked'[k].job_id > j.job_id
             /\ (jobsT[ds] = {} /\ Len(acked) > 0) =>
                   first = acked[Len(acked)].job_id + 1
             /\ pc \notin {"createJobs", "createStatus", "addRefresh", "addDone"}
      ]_vars

\* A job stored in a dataset added by a roll-over.
C5_Witness ==
    /\ Len(datasetList) >= 2
    /\ ret.op = "Store"
    /\ Len(acked) >= 3
    /\ Cardinality(jobsT[datasetList[Len(datasetList)]]) = ret.n

\* C6: whenever dsListLock is not write-held, the range list has one entry
\* for every dataset of the list but the last, each with the minimum and the
\* maximum job_id of the jobs table of its dataset, every minimum above the
\* previous maximum; the list is the datasets of the database whenever no
\* compaction runs; and the assertions of getDSRangeList never fail.
C6_RangeListMatchesTables ==
    /\ panic # "getDSRangeList"
    /\ ~dsListLock.w =>
          /\ Len(datasetRangeList) = Len(datasetList) - 1
          /\ \A i \in 1..Len(datasetRangeList) :
                /\ datasetRangeList[i].ds = datasetList[i]
                /\ jobsT[datasetList[i]] # {}
                /\ \A j \in jobsT[datasetList[i]] :
                      /\ datasetRangeList[i].minJobID <= j.job_id
                      /\ j.job_id <= datasetRangeList[i].maxJobID
                /\ \E j \in jobsT[datasetList[i]] : j.job_id = datasetRangeList[i].minJobID
                /\ \E j \in jobsT[datasetList[i]] : j.job_id = datasetRangeList[i].maxJobID
                /\ i > 1 => datasetRangeList[i - 1].maxJobID < datasetRangeList[i].minJobID
          /\ ~dsMigrationLock.w => Range(datasetList) = DOMAIN jobsT

\* A range list of two entries, the first of a compacted dataset.
C6_Witness ==
    /\ ~dsListLock.w /\ pc = "sleep"
    /\ Len(datasetRangeList) >= 2
    /\ Len(datasetRangeList[1].ds) = 2

\* C7: UpdateJobStatus on statuses of jobs of the catalog does not panic and
\* appends to the status table of every dataset exactly the rows of the sorted
\* batch whose job the jobs table of that dataset holds, in order.
C7_StatusRowsGoToTheShardOfTheJob ==
    [][ret'.op = "UpdateJobStatus" =>
          /\ panic' = ""
          /\ DOMAIN statusT' = DOMAIN statusT
          /\ \A ds \in DOMAIN statusT :
                LET InDS(r) == r.job_id \in JobIDs(jobsT[ds])
                    rows == [i \in 1..Len(ret'.statusList) |-> WrittenRow(ret'.statusList[i])]
                IN statusT'[ds] = statusT[ds] \o SelectSeq(rows, InDS)
      ]_vars

\* A batch with one job of a dataset with a range and one of the last dataset.
C7_Witness ==
    /\ ret.op = "UpdateJobStatus" /\ panic = ""
    /\ Len(ret.statusList) = 2
    /\ Len(datasetRangeList) >= 1
    /\ ret.statusList[1].JobID \in JobIDs(jobsT[datasetList[1]])
    /\ ret.statusList[2].JobID \in JobIDs(jobsT[datasetList[Len(datasetList)]])

\* The stored jobs that were never given a status and whose tag is in filters.
NeverProcessed(filters) ==
    {k \in 1..Len(acked) : /\ acked[k].job_id \notin DOMAIN lastWritten
                           /\ acked[k].custom_val \in filters}

\* C8: a GetUnprocessed(tags, count) with count at least the number of
\* unprocessed jobs returns every stored job of these tags that has no status,
\* each exactly once.
C8_GetUnprocessedReturnsStoredJobs ==
    (/\ ret.op = "GetUnprocessed"
     /\ ret.count >= Cardinality(NeverProcessed(Tags))) =>
        \A k \in NeverProcessed(ret.customValFilters) :
            Cardinality({i \in 1..Len(ret.jobs) :
                            /\ ret.jobs[i].JobID = acked[k].job_id
                            /\ ret.jobs[i].CustomVal = acked[k].custom_val}) = 1

\* C9: every query returns what it returns when no result is taken from the
\* empty-result cache.
C9_CacheIsPureOptimization ==
    /\ ret.op = "GetUnprocessed" =>
          ret.jobs = unprocessedLoop(datasetList, 1, jobsT, statusT, {},
                                     ret.customValFilters, ret.count).jobs
    /\ ret.op = "GetProcessed" =>
          ret.jobs = processedLoop(datasetList, 1, jobsT, statusT, {}, ret.stateFilter,
                                   ret.customValFilters, ret.count, now).jobs

\* The threads between the commit of a write to a dataset and its clearing of
\* the cache.
WriteInProgress(ds) ==
    \E t \in Threads :
        \/ thr[t].pc = "storeClear" /\ thr[t].ds = ds
        \/ thr[t].pc = "updateClear" /\ thr[t].calls[thr[t].k].ds = ds

\* The jobs of a dataset that match (tag, state): no status row for NP, the
\* state of the latest status row otherwise.
Matching(ds, tag, state) ==
    {j \in jobsT[ds] :
        /\ j.custom_val = tag
        /\ IF state = "NP" THEN RowsOf(statusT[ds], j.job_id) = {}
           ELSE /\ RowsOf(statusT[ds], j.job_id) # {}
                /\ LastRowOf(statusT[ds], j.job_id).job_state = state}

\* C10: whenever a cache entry (dataset, tag, state) is true and no write to
\* the dataset is between its commit and its clearing of the cache, the dataset
\* holds no job matching (tag, state).
C10_TrueEntryMeansEmpty ==
    \A e \in dsEmptyResultCache :
        (e[1] \in DOMAIN jobsT /\ ~WriteInProgress(e[1])) => Matching(e[1], e[2], e[3]) = {}

\* C1: a Setup after a crash does not fail an assertion, and after it every
\* dataset of the list but the last holds jobs and the job ids of each are
\* above the job ids of the datasets before it.
C1_SetupRecoversAfterCrash ==
    /\ pc = "down" => panic = ""
    /\ ret.op = "Setup" =>
          /\ Len(datasetList) >= 1
          /\ Range(datasetList) = DOMAIN jobsT
          /\ DOMAIN statusT = DOMAIN jobsT
          /\ \A i \in 1..(Len(datasetList) - 1) : jobsT[datasetList[i]] # {}
          /\ \A i, k \in 1..(Len(datasetList) - 1) :
                i < k => \A x \in jobsT[datasetList[i]], y \in jobsT[datasetList[k]] :
                            x.job_id < y.job_id

\* The journal rows that are not done.
OpenRows == {k \in DOMAIN journal : ~journal[k].done}

\* The positions of the maintenance loop between the mark-start and the
\* mark-done of each kind of structural operation.
InAddDS == pc \in {"createJobs", "createStatus", "addRefresh", "addDone"}

InMigrateDel == pc \in {"dropStatus", "dropJobs", "delRefresh", "delDone"}

\* C11: the journal never holds more than one row that is not done, the row
\* that is not done is the newest one and is the entry of the operation the
\* loop is in (or of the one a crash interrupted), and there is none while the
\* loop is between operations; so ADD_DS of the destination is done when
\* MIGRATE_COPY starts and MIGRATE_COPY is done when MIGRATE_DEL starts.
C11_AtMostOneOpenJournalRow ==
    /\ Cardinality(OpenRows) <= 1
    /\ \A k \in OpenRows : k = Len(journal)
    /\ (~InAddDS /\ ~InMigrateCopy /\ ~InMigrateDel /\ pc # "down") => OpenRows = {}
    /\ InAddDS => \E k \in OpenRows : /\ journal[k].operation = addDSOperation
                                      /\ journal[k].to = loc.newDS
    /\ InMigrateCopy => \E k \in OpenRows : /\ journal[k].operation = migrateCopyOperation
                                            /\ journal[k].to = loc.migrateTo
                                            /\ journal[k].from = loc.migrateFrom
    /\ InMigrateDel => \E k \in OpenRows : /\ journal[k].operation = migrateDelOperation
                                           /\ journal[k].from = loc.migrateFrom

\* A delete phase whose journal holds the done entries of the destination and
\* of the copy before its own entry.
C11_Witness ==
    /\ pc = "dropStatus"
    /\ Len(journal) >= 3
    /\ journal[Len(journal)].operation = migrateDelOperation
    /\ ~journal[Len(journal)].done
    /\ journal[Len(journal) - 1].operation = migrateCopyOperation
    /\ journal[Len(journal) - 1].done
    /\ journal[Len(journal) - 2].operation = addDSOperation
    /\ journal[Len(journal) - 2].done
    /\ journal[Len(journal) - 2].to = journal[Len(journal) - 1].to

\* The tables of the datasets other than ds.
Others(t, ds) == [x \in DOMAIN t \ {ds} |-> t[x]]

\* The ids of the journal rows.
JournalIDs(j) == {j[i].id : i \in DOMAIN j}

\* C12: an ADD_DS entry is started for a dataset that has no table; while the
\* entry is not done, before and after a crash, no table of another dataset
\* changes; and the Setup after a crash that left the entry not done ends
\* without a failed assertion, with no table of the dataset of the entry, the
\* entry deleted from the journal and the in-memory list equal to the
\* datasets that were there before the ADD_DS began.
C12_AddDSCrashIsUndone ==
    [][/\ (Len(journal') > Len(journal) /\
           journal'[Len(journal')].operation = addDSOperation) =>
              /\ journal'[Len(journal')].to \notin DOMAIN jobsT \cup DOMAIN statusT
              /\ jobsT' = jobsT /\ statusT' = statusT
       /\ \A k \in OpenRows : journal[k].operation = addDSOperation =>
              /\ Others(jobsT', journal[k].to) = Others(jobsT, journal[k].to)
              /\ Others(statusT', journal[k].to) = Others(statusT, journal[k].to)
              /\ pc = "down" =>
                    /\ panic' = "" /\ pc' = "sleep"
                    /\ journal[k].to \notin DOMAIN jobsT' \cup DOMAIN statusT'
                    /\ journal[k].id \notin JournalIDs(journal')
                    /\ OpenRows' = {}
                    /\ datasetList' = SortIdx(DOMAIN jobsT \ {journal[k].to})
      ]_vars

\* The state after a Setup that deleted the newest journal entry, which was
\* an ADD_DS entry: a MIGRATE_COPY entry follows the ADD_DS entry of its
\* destination, which stays in the journal.
C12_Witness ==
    /\ ret.op = "Setup" /\ panic = ""
    /\ journalSeq \notin JournalIDs(journal)
    /\ ~(/\ journal[Len(journal)].id = journalSeq - 1
         /\ journal[Len(journal)].operation = addDSOperation
         /\ Len(journal[Len(journal)].to) = 2)

\* The database a Setup leaves when it starts from the state.
Recovered ==
    recoverFromJournal(journal, [jobsT |-> jobsT, statusT |-> statusT, jobSeq |-> jobSeq]).db

\* The sources an iteration of mainCheckLoop selects over the datasets of db.
SourcesOver(db) ==
    selectMigrate(getDSList(db.jobsT), 1, db.jobsT, db.statusT, dsRetentionPeriod, now,
                  [migrateFrom |-> <<>>, insertBeforeDS |-> <<>>, liveCount |-> 0]).migrateFrom

IsPrefix(s, t) == Len(s) <= Len(t) /\ \A i \in 1..Len(s) : s[i] = t[i]

\* What C13 says of every step taken while a MIGRATE_COPY entry e is not done,
\* but for the sources of the next iteration: no table of a source changes,
\* and the Setup after a crash ends without a failed assertion, with no table
\* of the destination, the entry deleted and every source in the list.
CopyCrashIsUndone(e) ==
    /\ \A s \in Range(e.from) : /\ s \in DOMAIN jobsT' /\ s \in DOMAIN statusT'
                                /\ jobsT'[s] = jobsT[s] /\ statusT'[s] = statusT[s]
    /\ pc = "down" =>
          /\ panic' = "" /\ pc' = "sleep"
          /\ e.to \notin DOMAIN jobsT' \cup DOMAIN statusT'
          /\ e.id \notin JournalIDs(journal')
          /\ OpenRows' = {}
          /\ Range(e.from) \subseteq Range(datasetList')

\* C13 as stated: after a crash with a MIGRATE_COPY entry not done, recovery
\* drops the destination and deletes the entry, the sources keep their jobs
\* and status rows, and the iteration of the maintenance loop on the recovered
\* database selects exactly the sources of the entry.
C13_CopyCrashSelectsSameSources ==
    [][\A k \in OpenRows : journal[k].operation = migrateCopyOperation =>
          /\ CopyCrashIsUndone(journal[k])
          /\ pc = "down" => SourcesOver(Recovered) = journal[k].from
      ]_vars

\* C13 amended: as above, but the iteration on the recovered database selects
\* the sources of the entry first and may select further datasets after them.
C13_CopyCrashSelectsSourcesFirst ==
    [][\A k \in OpenRows : journal[k].operation = migrateCopyOperation =>
          /\ CopyCrashIsUndone(journal[k])
          /\ pc = "down" => IsPrefix(journal[k].from, SourcesOver(Recovered))
      ]_vars

\* The state after a Setup that deleted the newest journal entry, a
\* MIGRATE_COPY entry: the ADD_DS entry of its destination is the newest entry
\* left, the destination has no table, and the loop selects sources again.
C13_Witness ==
    /\ ret.op = "Setup" /\ panic = ""
    /\ journalSeq \notin JournalIDs(journal)
    /\ journal[Len(journal)].id = journalSeq - 1
    /\ journal[Len(journal)].operation = addDSOperation
    /\ Len(journal[Len(journal)].to) = 2
    /\ journal[Len(journal)].to \notin DOMAIN jobsT \cup DOMAIN statusT
    /\ Len(SourcesOver([jobsT |-> jobsT, statusT |-> statusT])) > 0

\* The tables of the datasets that are not in the set.
Without(t, S) == [x \in DOMAIN t \ S |-> t[x]]

\* C14: the Setup after a crash that left a MIGRATE_DEL entry not done leaves
\* no table of any source of the entry, leaves every table of every other
\* dataset (the destination of the compaction among them) as it was, and
\* leaves the entry in the journal, marked done, with the other entries as
\* they were.
C14_DelCrashIsCompleted ==
    [][\A k \in OpenRows : (journal[k].operation = migrateDelOperation /\ pc = "down") =>
          /\ Range(journal[k].from) \cap (DOMAIN jobsT' \cup DOMAIN statusT') = {}
          /\ jobsT' = Without(jobsT, Range(journal[k].from))
          /\ statusT' = Without(statusT, Range(journal[k].from))
          /\ Len(journal') = Len(journal)
          /\ journal'[k] = [journal[k] EXCEPT !.done = TRUE]
          /\ \A i \in DOMAIN journal \ {k} : journal'[i] = journal[i]
      ]_vars

\* A crash in the delete phase of a compaction that copied, after the status
\* table of a source was dropped and before its jobs table is: the
\* destination is there and holds jobs.
C14_Witness ==
    /\ pc = "down" /\ panic = ""
    /\ \E k \in OpenRows :
          /\ journal[k].operation = migrateDelOperation
          /\ \E s \in Range(journal[k].from) : s \in DOMAIN jobsT /\ s \notin DOMAIN statusT
          /\ k > 1 /\ journal[k - 1].operation = migrateCopyOperation
          /\ journal[k - 1].to \in DOMAIN jobsT \cap DOMAIN statusT
          /\ jobsT[journal[k - 1].to] # {}

\* The datasets the recovery of a journal entry drops, in order.
TargetsOf(e) == IF e.operation = migrateDelOperation THEN e.from ELSE <<e.to>>

\* The database after the DROP of the status table of a dataset alone.
StatusDropped(db, ds) == [db EXCEPT !.statusT = dropTable(@, ds)]

\* The databases a recovery that drops dsSeq passes through from its k-th
\* dataset on: before and after each of its DROP statements.
RECURSIVE RecoveryStates(_, _, _)
RecoveryStates(db, dsSeq, k) ==
    IF k > Len(dsSeq) THEN {db}
    ELSE {db, StatusDropped(db, dsSeq[k])}
         \cup RecoveryStates(dropDSIfExists(db, dsSeq[k]), dsSeq, k + 1)

\* C15: after a crash with a journal entry not done, of any kind, a recovery
\* that starts from any database an earlier recovery of the entry left when
\* it stopped before it wrote the journal (after any number of its drops, all
\* of them included) fails no assertion and ends with the tables and the
\* journal that a single recovery ends with.
C15_RecoveryIsIdempotent ==
    (pc = "down" /\ panic = "") =>
        \A k \in OpenRows :
            LET db == [jobsT |-> jobsT, statusT |-> statusT, jobSeq |-> jobSeq]
                once == recoverFromJournal(journal, db)
            IN \A mid \in RecoveryStates(db, TargetsOf(journal[k]), 1) :
                  /\ recoverFromJournal(journal, mid).ok
                  /\ recoverFromJournal(journal, mid).db = once.db
                  /\ recoverFromJournal(journal, mid).journal = once.journal

\* A crash in a delete phase of two sources, the first dropped in part and
\* the second not yet: a recovery has tables to drop and passes through
\* several databases.
C15_Witness ==
    /\ pc = "down" /\ panic = ""
    /\ \E k \in OpenRows :
          /\ journal[k].operation = migrateDelOperation
          /\ Len(journal[k].from) >= 2
          /\ journal[k].from[1] \in DOMAIN jobsT \ DOMAIN statusT
          /\ journal[k].from[2] \in DOMAIN jobsT \cap DOMAIN statusT

\* ---------------------------------------------------------------- C16
Parties == Threads \cup {0}

Holds(x, name) == IF x = 0 THEN LockOf(name).w ELSE x \in LockOf(name).r

Wants(x, name) ==
    IF x = 0 THEN LoopWants = name
    ELSE thr[x].pc = "rlock" /\ lockOrder(thr[x].op)[thr[x].k] = name

\* The parties that have to release a lock before party x (0: the maintenance
\* loop) can go on: the readers, for a Lock(); the writer that holds the lock
\* or waits for it, for an RLock().
Blockers(x) ==
    IF x = 0
    THEN IF LoopWants = "" THEN {}
         ELSE LockOf(LoopWants).r \cup (IF LockOf(LoopWants).w THEN {0} ELSE {})
    ELSE IF thr[x].pc # "rlock" THEN {}
         ELSE IF \E name \in {"dsListLock", "dsMigrationLock"} :
                    Wants(x, name) /\ (LockOf(name).w \/ LockOf(name).p)
              THEN {0} ELSE {}

\* A set of parties each of which waits for another one of the set.
Deadlocked == \E S \in (SUBSET Parties) \ {{}} : \A x \in S : Blockers(x) \cap S # {}

\* C16: nobody asks for dsMigrationLock while holding dsListLock;
\* UpdateJobStatus, GetUnprocessed and GetProcessed hold dsMigrationLock
\* whenever they hold or ask for dsListLock; and no interleaving of the callers
\* with the maintenance loop reaches a state where a set of them wait for each
\* other, a party that nobody blocks being able to take its step, also
\* while a waiting Lock() keeps new readers out.
C16_MigrationLockFirstNoDeadlock ==
    /\ \A x \in Parties : Wants(x, "dsMigrationLock") => ~Holds(x, "dsListLock")
    /\ \A t \in Threads :
          /\ thr[t].pc # "idle" /\ thr[t].op # "Store"
          /\ Holds(t, "dsListLock") \/ Wants(t, "dsListLock")
          => Holds(t, "dsMigrationLock")
    /\ Running => ~Deadlocked
    /\ \A t \in Threads :
          Running /\ thr[t].pc = "rlock" /\ Blockers(t) = {} => ENABLED ApiRLock(t)
    /\ Running /\ LoopWants # "" /\ Blockers(0) = {} => ENABLED Maintenance

\* The loop holds dsMigrationLock and waits for dsListLock, which a Store
\* holds, while another call waits for dsMigrationLock.
C16_Witness ==
    /\ Running /\ dsMigrationLock.w /\ dsListLock.p
    /\ \E t1, t2 \in Threads :
          /\ thr[t1].pc = "body" /\ thr[t1].op = "Store" /\ t1 \in dsListLock.r
          /\ thr[t2].pc = "rlock" /\ Wants(t2, "dsMigrationLock")

\* ---------------------------------------------------------------- C17
\* C17: a Store call never holds or asks for dsMigrationLock; the maintenance
\* loop neither holds nor waits for dsListLock while it copies the jobs of the
\* sources to the destination; so during the copy every step of a Store call
\* (its RLock, its insert, its RUnlock) can be taken at once, and the insert
\* does not fail.
C17_StoreNotBlockedByCopy ==
    /\ \A t \in Threads :
          thr[t].pc # "idle" /\ thr[t].op = "Store"
          => ~Holds(t, "dsMigrationLock") /\ ~Wants(t, "dsMigrationLock")
    /\ InMigrateCopy => ~dsListLock.w /\ ~dsListLock.p
    /\ \A t \in Threads :
          Running /\ InMigrateCopy /\ thr[t].pc # "idle" /\ thr[t].op = "Store"
          => /\ thr[t].pc = "rlock" => ENABLED ApiRLock(t)
             /\ thr[t].pc = "body" => ENABLED (ApiBody(t) /\ panic' = "")
             /\ thr[t].pc = "runlock" => ENABLED ApiRUnlock(t)

\* A Store call that came while the loop was copying has just inserted its job
\* and the loop is still copying.
C17_Witness ==
    /\ Running /\ InMigrateCopy
    /\ ret = [op |-> "Store", n |-> 1]
    /\ \E t \in Threads :
          thr[t].pc = "runlock" /\ thr[t].op = "Store" /\ thr[t].inCopy

\* ---------------------------------------------------------------- C18
\* C18: once Setup has returned, the list of datasets in memory is never empty
\* and its last dataset, the one Store writes to, is of level 0: a dataset of
\* level 1 is never the newest one.
C18_NewestDatasetIsLevel0 ==
    pc # "down" =>
        /\ Len(datasetList) > 0
        /\ Len(datasetList[Len(datasetList)]) = 1

\* After a restart the list holds the destination of a migration, in front of
\* the newest dataset.
C18_Witness ==
    /\ Running /\ ret = [op |-> "Setup"]
    /\ \E i \in 1..(Len(datasetList) - 1) : Len(datasetList[i]) = 2

\* ---------------------------------------------------------------- C19
\* The job ids of the jobs of the catalog that match one of the tags and one of
\* the states (NP: no status row), and for a state also retry_time < now.
MatchingIDs(tags, states) ==
    UNION {{j.job_id : j \in {m \in Matching(ds, tag, state) :
                                state # "NP" =>
                                   LastRowOf(statusT[ds], m.job_id).retry_time < now}} :
           ds \in DOMAIN jobsT \cap DOMAIN statusT, tag \in tags, state \in states}

\* The first min(count, N) of the N ids of S, in increasing order.
SmallestIDs(S, count) == SubSeq(SortInts(S), 1, Min({count, Cardinality(S)}))

ReturnedIDs == [i \in 1..Len(ret.jobs) |-> ret.jobs[i].JobID]

\* C19: GetUnprocessed(tags, count) returns the min(count, N) matching
\* unprocessed jobs of the catalog with the smallest job ids, in increasing
\* order of job id, and GetProcessed does so for the jobs that match its
\* state, tag and retry-time filters; with count = 0 both return no job and
\* query no dataset.
C19_QueriesReturnSmallestMatching ==
    /\ ret.op = "GetUnprocessed" =>
          ReturnedIDs = SmallestIDs(MatchingIDs(ret.customValFilters, {"NP"}), ret.count)
    /\ ret.op = "GetProcessed" =>
          ReturnedIDs = SmallestIDs(MatchingIDs(ret.customValFilters, ret.stateFilter),
                                    ret.count)

\* ---------------------------------------------------------------- C20
\* C20: GetProcessed returns a result only if every name of its state filter is
\* one of waiting, executing, succeeded, waiting_retry, failed and aborted;
\* with any other name, NP included, it ends in a failed assertion, whatever
\* the empty-result cache holds.
C20_InvalidStateFilterAborts ==
    ret.op = "GetProcessed" => ret.stateFilter \subseteq job_state_type

\* ---------------------------------------------------------------- C21
\* The loop is between two iterations or in an iteration that adds, migrates
\* and drops nothing.
AtFixpoint ==
    /\ panic = ""
    /\ pc \in {"sleep", "migrate"}
    /\ ~checkIfFullDS(jobsT[datasetList[Len(datasetList)]])
    /\ Len(selectMigrate(datasetList, 1, jobsT, statusT, dsRetentionPeriod, now,
                         [migrateFrom |-> <<>>, insertBeforeDS |-> <<>>,
                          liveCount |-> 0]).migrateFrom) = 0

\* The destination of the migration in progress, once all sources are copied.
CopiedInto ==
    IF (pc \in {"copyDone", "delStart"} \/ InMigrateDel) /\ loc.migrateTo # <<>>
    THEN {loc.migrateTo} ELSE {}

\* C21: once the callers have stopped writing, the maintenance loop comes to
\* a fixpoint: from some iteration on it adds, migrates and drops no dataset.
\* The dataset a migration has filled is not itself migrated: it holds no row
\* of a final state and at most one status row for a job.
C21_LoopReachesFixpoint ==
    /\ <>[]AtFixpoint
    /\ <>[][DOMAIN jobsT' = DOMAIN jobsT /\ DOMAIN statusT' = DOMAIN statusT]_vars
    /\ [](\A ds \in CopiedInto :
             /\ ~checkIfMigrateDS(jobsT[ds], statusT[ds], dsRetentionPeriod, now)[1]
             /\ delCountOf(statusT[ds]) = 0
             /\ \A j \in jobsT[ds] : Cardinality(RowsOf(statusT[ds], j.job_id)) <= 1)

\* The loop is at a fixpoint after a migration that copied jobs.
C21_Witness ==
    /\ AtFixpoint /\ pc = "sleep"
    /\ \E i \in 1..Len(datasetList) :
          /\ Len(datasetList[i]) = 2
          /\ \E j \in jobsT[datasetList[i]] : RowsOf(statusT[datasetList[i]], j.job_id) # {}

\* ---------------------------------------------------------------- C22
\* The jobs of a dataset that have a status row of a final state.
TerminalJobs(ds) ==
    {j \in jobsT[ds] :
        \E i \in RowsOf(statusT[ds], j.job_id) :
            statusT[ds][i].job_state \in {"succeeded", "aborted"}}

\* C22: the count of finished jobs that checkIfMigrateDS takes for a dataset
\* is the number of distinct jobs of the dataset with a status row in state
\* succeeded or aborted, a job with several such rows being counted once, and
\* the count of live jobs it returns, the jobs less the finished ones, is not
\* negative.
C22_TerminalCountIsDistinctJobs ==
    \A ds \in DOMAIN jobsT \cap DOMAIN statusT :
        /\ delCountOf(statusT[ds]) = Cardinality(TerminalJobs(ds))
        /\ checkIfMigrateDS(jobsT[ds], statusT[ds], dsRetentionPeriod, now)[2] >= 0

\* The position of ds in the in-memory list (0 when it is not in it).
PosInList(ds) ==
    IF ds \in Range(datasetList)
    THEN Min({i \in 1..Len(datasetList) : datasetList[i] = ds}) ELSE 0

\* The thread is inside UpdateJobStatus.
InUpdate(t) == thr[t].pc \in {"updateCommit", "updateClear"}

\* The calls of the batch are for datasets of the list, oldest first, every
\* row for a job of the dataset of its call; the rows of all calls are the
\* batch.
CallsOldestFirst(t) ==
    LET calls == thr[t].calls
    IN /\ \A i \in 1..Len(calls) :
             /\ PosInList(calls[i].ds) > 0
             /\ \A j \in 1..Len(calls) :
                   i < j => PosInList(calls[i].ds) < PosInList(calls[j].ds)
             /\ \A r \in 1..Len(calls[i].rows) :
                   calls[i].rows[r].JobID \in JobIDs(jobsT[calls[i].ds])
       /\ thr[t].ok =>
             UNION {Range(calls[i].rows) : i \in 1..Len(calls)} = Range(thr[t].statusList)

\* A commit of UpdateJobStatus appends the rows of one call to the status
\* table of the dataset of that call and leaves every other table alone.
CommitsOneDataset(t) ==
    (thr[t].pc = "updateCommit" /\ thr'[t].pc = "updateClear") =>
        LET c == thr[t].calls[thr[t].k]
        IN /\ Len(statusT'[c.ds]) = Len(statusT[c.ds]) + Len(c.rows)
           /\ SubSeq(statusT'[c.ds], 1, Len(statusT[c.ds])) = statusT[c.ds]
           /\ \A ds \in DOMAIN statusT \ {c.ds} : statusT'[ds] = statusT[ds]
           /\ DOMAIN statusT' = DOMAIN statusT
           /\ thr'[t].k = thr[t].k

\* Outside the commits of the caller no step of the caller writes a status.
OnlyCommitsWrite(t) ==
    (InUpdate(t) /\ ~(thr[t].pc = "updateCommit" /\ thr'[t].pc = "updateClear")) =>
        statusT' = statusT

\* C23: UpdateJobStatus commits a batch over several datasets as one
\* transaction per dataset, the oldest dataset first and the newest last,
\* whatever the order of the batch.
C23_OneCommitPerDatasetOldestFirst ==
    [][\A t \in Threads :
          /\ InUpdate(t) => CallsOldestFirst(t)
          /\ CommitsOneDataset(t)
          /\ OnlyCommitsWrite(t)]_vars

\* The caller gave a batch of three statuses out of order for jobs of three
\* datasets, the newest among them, and the third commit was made.
C23_Witness ==
    /\ thr[Caller].pc = "updateClear"
    /\ Len(thr[Caller].calls) = 3 /\ thr[Caller].k = 3
    /\ Len(thr[Caller].statusList) = 3
    /\ thr[Caller].statusList[1].JobID > thr[Caller].statusList[2].JobID
    /\ thr[Caller].calls[3].ds = datasetList[Len(datasetList)]
    /\ Len(datasetList) = 3

\* The step of mainCheckLoop that selects datasets to migrate (lines 1049-1064).
SelectionStep == pc = "migrate" /\ pc' \in {"addNewDS", "delStart"}

\* The step that ends the addNewDS(false, insertBeforeDS) of a migration.
DestinationStep == pc = "addDone" /\ pc' = "copyStart"

\* The selected datasets are the first n of the list the iteration read.
SelectedPrefix(from, dsList) ==
    /\ Len(from) >= 1 /\ Len(from) < Len(dsList)
    /\ from = SubSeq(dsList, 1, Len(from))

\* C24: the datasets an iteration selects are a prefix of the list from the
\* oldest dataset on, all of them ready to migrate, at most maxMigrateOnce of
\* them and never the newest; the destination is put right before the first
\* dataset that was not selected.
C24_SelectionIsOldestPrefix ==
    [][/\ SelectionStep =>
            LET from == loc'.migrateFrom
            IN /\ SelectedPrefix(from, loc.dsList)
               /\ from[1] = getDSList(jobsT)[1]
               /\ \A i \in 1..Len(from) :
                     checkIfMigrateDS(jobsT[from[i]], statusT[from[i]],
                                      dsRetentionPeriod, now)[1]
               /\ Len(from) <= maxMigrateOnce
               /\ datasetList[Len(datasetList)] \notin Range(from)
               /\ getDSList(jobsT)[Len(getDSList(jobsT))] \notin Range(from)
               /\ loc'.insertBeforeDS = loc.dsList[Len(from) + 1]
       /\ DestinationStep =>
            LET dList == getDSList(jobsT')
                n == Len(loc.migrateFrom)
            IN /\ dList[n] = loc.migrateFrom[n]
               /\ dList[n + 1] = loc'.migrateTo
               /\ dList[n + 2] = loc.insertBeforeDS
               /\ loc.insertBeforeDS = loc.dsList[n + 1]]_vars

\* The first ten datasets of a longer list were selected, and their
\* destination was put behind them.
C24_Witness ==
    /\ pc = "copyStart"
    /\ Len(loc.migrateFrom) = maxMigrateOnce
    /\ Len(loc.dsList) > maxMigrateOnce + 1

\* C25: the live jobs counted over the datasets selected for one migration
\* are never more than maxDSSize, and no destination of a migration holds
\* more than maxDSSize jobs.
C25_LiveCountWithinMaxDSSize ==
    /\ Len(loc.migrateFrom) > 0 => loc.liveCount <= maxDSSize
    /\ \A ds \in DOMAIN jobsT : Len(ds) = 2 => Cardinality(jobsT[ds]) <= maxDSSize

\* The dataset is outside its retention window.
OutsideRetention(ds) ==
    ~(dsRetentionPeriod > 0 /\
      now - Max({j.created_at : j \in jobsT[ds]}) < dsRetentionPeriod)

\* C26: a dataset with a job and outside its retention window is reported
\* ready to migrate exactly when more than 0.8 of its jobs are succeeded or
\* aborted or it has more than 5 status rows per job; a dataset without a job
\* is never ready and reports 0 live jobs.
C26_CompactableIffOverThreshold ==
    ret.op = "checkIfMigrateDS" =>
        LET jobCount == Cardinality(jobsT[ret.ds])
            terminal == Cardinality(TerminalJobs(ret.ds))
            statusRows == Len(statusT[ret.ds])
        IN /\ (jobCount >= 1 /\ OutsideRetention(ret.ds)) =>
                (ret.ifMigrate <=> (\/ terminal * 5 > jobCount * 4
                                    \/ statusRows > 5 * jobCount))
           /\ jobCount = 0 => (~ret.ifMigrate /\ ret.remCount = 0)

\* A retention period is set and the newest job of the dataset is younger.
InRetention(ds) ==
    /\ dsRetentionPeriod > 0
    /\ jobsT[ds] # {}
    /\ now - Max({j.created_at : j \in jobsT[ds]}) < dsRetentionPeriod

\* The dataset is over one of the two thresholds of checkIfMigrateDS.
OverThreshold(ds) ==
    /\ jobsT[ds] # {}
    /\ \/ delCountOf(statusT[ds]) * jobDoneMigrateThresDen >
              Cardinality(jobsT[ds]) * jobDoneMigrateThresNum
       \/ Len(statusT[ds]) > jobStatusMigrateThres * Cardinality(jobsT[ds])

\* C27: with a retention period, a dataset whose newest job is younger than
\* the period is not selected for a migration and none of its tables is
\* dropped, whatever its counts.
C27_RetentionOverridesThresholds ==
    [][/\ SelectionStep => \A i \in 1..Len(loc'.migrateFrom) : ~InRetention(loc'.migrateFrom[i])
       /\ \A ds \in DOMAIN jobsT \cap DOMAIN statusT :
             InRetention(ds) => (ds \in DOMAIN jobsT' /\ ds \in DOMAIN statusT')]_vars

\* The loop selected the oldest dataset and stopped at the second, which is
\* over a threshold and not the newest, but in retention.
C27_Witness ==
    /\ pc \in {"delStart", "copyStart"}
    /\ Len(loc.dsList) >= 3
    /\ loc.migrateFrom = <<loc.dsList[1]>>
    /\ InRetention(loc.dsList[2])
    /\ OverThreshold(loc.dsList[2])

\* The last dataset of a list.
LastOf(dsList) == dsList[Len(dsList)]

\* The start of an iteration: the list is read and the newest dataset probed.
ProbeStep == pc = "sleep" /\ pc' \in {"addNewDS", "migrate"}

\* The end of the addNewDS(true) of an iteration.
RollOverStep == pc = "addDone" /\ loc.appendLast /\ pc' = "migrate"

\* C28: an iteration appends a level-0 dataset exactly when the newest dataset
\* it probed holds more than maxDSSize jobs; the new dataset is then the last
\* of the list, the dataset before it has a range, and every Store writes to
\* the last dataset of the list only.
C28_RollOverIffOverMaxDSSize ==
    [][/\ ProbeStep =>
            (pc' = "addNewDS" <=> Cardinality(jobsT[LastOf(datasetList)]) > maxDSSize)
       /\ \A ds \in DOMAIN jobsT' \ DOMAIN jobsT :
             Len(ds) = 1 => /\ loc.appendLast
                            /\ Cardinality(jobsT[LastOf(loc.dsList)]) > maxDSSize
       /\ RollOverStep =>
            /\ LastOf(datasetList') = loc.newDS
            /\ Len(loc.newDS) = 1
            /\ loc.newDS \notin Range(loc.dsList)
            /\ loc.newDS \in DOMAIN jobsT' \cap DOMAIN statusT'
            /\ datasetList'[Len(datasetList') - 1] = LastOf(loc.dsList)
            /\ \E i \in 1..Len(datasetRangeList') :
                  datasetRangeList'[i].ds = LastOf(loc.dsList)
       /\ Len(acked') > Len(acked) =>
            \A ds \in DOMAIN jobsT :
                jobsT'[ds] # jobsT[ds] =>
                    /\ ds = LastOf(datasetList)
                    /\ ds = LastOf(getDSList(jobsT))]_vars

\* After a roll-over a Store wrote to the new dataset, which is the last of
\* the list; the dataset before it is over maxDSSize and has a range.
C28_Witness ==
    /\ datasetList = <<(<<1>>), (<<2>>)>>
    /\ Cardinality(jobsT[<<1>>]) > maxDSSize
    /\ jobsT[<<2>>] # {}
    /\ Len(datasetRangeList) = 1 /\ datasetRangeList[1].ds = <<1>>

\* The step of addNewDS that chooses the index of the new dataset, and the
\* step that creates its jobs table.
NewIndexStep == pc = "addNewDS" /\ pc' = "createJobs"

CreateStep == pc = "createJobs" /\ pc' = "createStatus"

\* The position of ds in a list that holds it.
PosOf(dList, ds) == CHOOSE i \in 1..Len(dList) : dList[i] = ds

\* C29: a dataset appended gets the number after the last level-0 dataset (1
\* in an empty catalog), a destination put before the level-0 dataset a gets
\* (a-1)_1 behind the level-0 dataset a-1 and (a-1)_(k+1) behind the level-1
\* dataset (a-1)_k; the new index is the index of no dataset, it sorts between
\* its neighbours, and no assertion of addNewDS fails.
C29_NewIndexIsFreshAndOrdered ==
    /\ newDSIdxOf(<<>>, TRUE, <<>>) = <<1>>
    /\ [][/\ panic' # "addNewDS"
          /\ NewIndexStep =>
               LET dList == getDSList(jobsT)
                   new == loc'.newDS
               IN /\ new \notin DOMAIN jobsT \cup DOMAIN statusT
                  /\ IF loc.appendLast
                     THEN /\ Len(LastOf(dList)) = 1
                          /\ new = <<LastOf(dList)[1] + 1>>
                          /\ \A i \in 1..Len(dList) : IndexLess(dList[i], new)
                     ELSE LET a == loc.insertBeforeDS
                              pre == dList[PosOf(dList, a) - 1]
                          IN /\ a \in Range(dList)
                             /\ PosOf(dList, a) > 1
                             /\ Len(a) = 1
                             /\ a[1] = pre[1] + 1
                             /\ Len(pre) = 1 => new = <<a[1] - 1, 1>>
                             /\ Len(pre) = 2 => new = <<a[1] - 1, pre[2] + 1>>
                             /\ IndexLess(pre, new) /\ IndexLess(new, a)
          /\ (CreateStep /\ ~loc.appendLast) =>
               LET dList == getDSList(jobsT')
               IN dList[PosOf(dList, loc.insertBeforeDS) - 1] = loc.newDS]_vars

\* A destination was created behind a level-1 dataset.
C29_Witness ==
    /\ pc = "createStatus"
    /\ ~loc.appendLast
    /\ Len(loc.newDS) = 2 /\ loc.newDS[2] = 2
    /\ loc.newDS \in DOMAIN jobsT

\* The marks of a dataset.
MarksOf(cache, ds) == {e \in cache : e[1] = ds}

\* A Store returned.
StoreStep == Len(acked') > Len(acked)

\* The markClearEmptyResult of an updateJobStatusDS.
ClearStep(t) == thr[t].pc = "updateClear" /\ thr'[t].pc # "updateClear"

\* The states written by the call the thread is at.
WrittenStates(t) ==
    LET rows == thr[t].calls[thr[t].k].rows
    IN {rows[i].JobState : i \in 1..Len(rows)}

\* storeJobsDS removes the marks of its dataset and no other mark.
StoreClearsDataset ==
    StoreStep => dsEmptyResultCache' =
                    dsEmptyResultCache \ MarksOf(dsEmptyResultCache, LastOf(datasetList))

\* C30 as claimed: a store removes the marks of its dataset and no other, and
\* an update of a dataset with states W and tag filters T, whatever T, removes
\* the marks (t, s) of the dataset with t in T and s in W and no other.
C30_WritesClearExactlyTouchedMarks ==
    [][/\ StoreClearsDataset
       /\ \A t \in Threads :
             ClearStep(t) =>
                dsEmptyResultCache' = dsEmptyResultCache \
                    {<<thr[t].calls[thr[t].k].ds, cv, st>> :
                        cv \in thr[t].customValFilters, st \in WrittenStates(t)}]_vars

\* C30, amended: the same with a tag filter list that is not empty; with an
\* empty tag filter list the update removes every mark of the dataset and no
\* mark of another.
C30_WritesClearTouchedOrAllMarks ==
    [][/\ StoreClearsDataset
       /\ \A t \in Threads :
             ClearStep(t) =>
                dsEmptyResultCache' = dsEmptyResultCache \
                    (IF thr[t].customValFilters = {}
                     THEN MarksOf(dsEmptyResultCache, thr[t].calls[thr[t].k].ds)
                     ELSE {<<thr[t].calls[thr[t].k].ds, cv, st>> :
                              cv \in thr[t].customValFilters, st \in WrittenStates(t)})]_vars

\* An update with tag "a" is about to clear the failed mark of tag "a" of a
\* dataset that has a mark of tag "b" too, while another dataset is marked.
C30_Witness ==
    /\ thr[Caller].pc = "updateClear"
    /\ thr[Caller].customValFilters = {"a"}
    /\ LET ds == thr[Caller].calls[thr[Caller].k].ds
       IN /\ \E st \in WrittenStates(Caller) : <<ds, "a", st>> \in dsEmptyResultCache
          /\ \E e \in MarksOf(dsEmptyResultCache, ds) : e[2] = "b"
          /\ \E e \in dsEmptyResultCache : e[1] # ds

\* ---------------------------------------------------------------- C31
\* The datasets of the in-memory list that hold a job.
ShardsOf(id) ==
    {ds \in Range(datasetList) \cap DOMAIN jobsT \cap DOMAIN statusT :
        \E j \in jobsT[ds] : j.job_id = id}

TagOf(ds, id) == (CHOOSE j \in jobsT[ds] : j.job_id = id).custom_val

\* The jobs with a status row in one of the states that is not their latest
\* row, the latest being in another state.
Superseded(states) ==
    {id \in JobIDs(PresentJobs) :
        \E ds \in ShardsOf(id) :
            /\ \E i \in RowsOf(statusT[ds], id) : statusT[ds][i].job_state \in states
            /\ LastRowOf(statusT[ds], id).job_state \notin states}

\* The latest status row of a returned job has retry_time < now, and the tag
\* of the job is in tags when tags is non-empty.
ReturnedAreDue ==
    \A i \in 1..Len(ret.jobs) :
        \E ds \in ShardsOf(ret.jobs[i].JobID) :
            /\ RowsOf(statusT[ds], ret.jobs[i].JobID) # {}
            /\ LastRowOf(statusT[ds], ret.jobs[i].JobID).retry_time < now
            /\ ret.customValFilters # {} =>
                  TagOf(ds, ret.jobs[i].JobID) \in ret.customValFilters

ReturnedAreInStates ==
    \A i \in 1..Len(ret.jobs) :
        \E ds \in ShardsOf(ret.jobs[i].JobID) :
            /\ RowsOf(statusT[ds], ret.jobs[i].JobID) # {}
            /\ LastRowOf(statusT[ds], ret.jobs[i].JobID).job_state \in ret.stateFilter

\* C31: GetProcessed(states, tags, count) returns a job only if its latest
\* status row (the row with the maximum id for the job in its dataset) has a
\* state in states and a retry_time earlier than the time of the call, and its
\* tag is in tags when tags is non-empty; a job with an older row in one of the
\* states and a latest row in another state is never returned.
C31_ReturnsOnlyLatestMatching ==
    ret.op = "GetProcessed" =>
        /\ ReturnedAreDue
        /\ ReturnedAreInStates
        /\ Range(ReturnedIDs) \cap Superseded(ret.stateFilter) = {}

\* C31, amended: the same, with the state of the latest row in states when
\* states is non-empty; with an empty list of states a job is returned
\* whatever the state of its latest row.
C31_ReturnsOnlyLatestMatchingNonEmpty ==
    ret.op = "GetProcessed" =>
        /\ ReturnedAreDue
        /\ ret.stateFilter # {} => ReturnedAreInStates
        /\ Range(ReturnedIDs) \cap Superseded(ret.stateFilter) = {}

\* GetProcessed returned a job for a non-empty list of states while another
\* job, failed once and succeeded later, was asked for as failed.
C31_Witness ==
    /\ ret.op = "GetProcessed"
    /\ ret.stateFilter = {"failed"}
    /\ Len(ret.jobs) > 0
    /\ Superseded(ret.stateFilter) # {}

\* ---------------------------------------------------------------- C32
\* C32: after TearDown has returned, the maintenance loop issues no further
\* statement on the database and is stopped, so that no iteration of the loop
\* after a TearDown ends in a failed assertion.
C32_TearDownStopsLoop == dbHandle = "closed" => panic = ""

\* ---------------------------------------------------------------- C33
\* The journal rows that recovery undoes, and the dataset it drops for each.
UndoRows ==
    {k \in OpenRows : journal[k].operation \in {addDSOperation, migrateCopyOperation}}

\* The rows of the jobs tables of a set of datasets.
JobsIn(t, S) == UNION {t[ds] : ds \in S \cap DOMAIN t}

\* The jobs of the dataset an undo would drop are in other datasets too: an
\* ADD_DS dataset holds no job, a MIGRATE_COPY destination holds copies of
\* jobs of its sources.
UndoLosesNoJob ==
    \A k \in UndoRows :
        journal[k].to \in DOMAIN jobsT =>
            /\ jobsT[journal[k].to] \subseteq JobsIn(jobsT, DOMAIN jobsT \ {journal[k].to})
            /\ journal[k].operation = addDSOperation => jobsT[journal[k].to] = {}
            /\ journal[k].operation = migrateCopyOperation =>
                  jobsT[journal[k].to] \subseteq JobsIn(jobsT, Range(journal[k].from))

\* The datasets a step adds job rows to.
WrittenTo == {ds \in DOMAIN jobsT \cap DOMAIN jobsT' : jobsT'[ds] # jobsT[ds]}

\* A Setup that finds an entry to undo.
UndoStep == pc = "down" /\ pc' = "sleep" /\ UndoRows # {}

\* C33: a dataset that recovery may drop as an undo holds no job that is in
\* no other dataset. Store never writes to a dataset whose ADD_DS entry is not
\* done: the entry is marked done before the list lock is released, and only
\* then is the dataset the newest one for Store. A MIGRATE_COPY destination
\* holds only copies of jobs that are still in its sources. So the undo of an
\* interrupted ADD_DS or MIGRATE_COPY deletes no job that Store acknowledged:
\* the jobs of the catalog are the same before and after it.
C33_UndoDeletesNoAcknowledgedJob ==
    /\ UndoLosesNoJob
    /\ [][/\ UndoLosesNoJob'
          /\ ret'.op = "Store" =>
                \A k \in OpenRows : journal[k].operation = addDSOperation =>
                                       journal[k].to \notin WrittenTo
          /\ (\E k \in OpenRows : journal[k].operation = addDSOperation) =>
                (dsListLock.w \/ pc = "down")
          /\ UndoStep => /\ JobsIn(jobsT', DOMAIN jobsT') = JobsIn(jobsT, DOMAIN jobsT)
                         /\ \A k \in UndoRows : journal[k].to \notin DOMAIN jobsT'
         ]_vars

\* A Setup has undone a MIGRATE_COPY: the ADD_DS entry of a level-1 destination
\* is done, its MIGRATE_COPY entry and its tables are gone, and the jobs Store
\* acknowledged were in the catalog when the process crashed.
C33_Witness ==
    /\ ret.op = "Setup" /\ panic = ""
    /\ Len(acked) > 0
    /\ \E k \in DOMAIN journal :
          /\ journal[k].operation = addDSOperation /\ journal[k].done
          /\ Len(journal[k].to) = 2
          /\ journal[k].to \notin DOMAIN jobsT
          /\ \A m \in DOMAIN journal : journal[m].operation = migrateCopyOperation =>
                                          journal[m].to # journal[k].to

\* ---------------------------------------------------------------- C34
\* The threads inside a GetUnprocessed or a GetProcessed call, which hold both
\* read locks.
Querying == {t \in Threads : thr[t].pc \in {"getRead", "getMark"}}

IDsOf(jobList) == [i \in 1..Len(jobList) |-> jobList[i].JobID]

NoIDTwice(ids) == \A i, k \in 1..Len(ids) : i # k => ids[i] # ids[k]

\* No job_id is in two datasets of the list.
ListedOnce ==
    \A d1, d2 \in Range(datasetList) \cap DOMAIN jobsT :
        d1 # d2 => JobIDs(jobsT[d1]) \cap JobIDs(jobsT[d2]) = {}

\* C34: whenever a reader can hold dsListLock, every dataset of the in-memory
\* list has both its tables in the database and the list never holds a
\* compaction destination together with one of its sources. The switch from
\* the sources to the destination is atomic for a reader: during a
\* GetUnprocessed or GetProcessed call the list and the tables stay as the
\* call found them, every job of the database is in exactly one dataset of the
\* list (none is only in a destination that is not listed yet), and the call
\* returns no job_id twice.
C34_SwitchIsAtomicForReaders ==
    /\ (panic = "" /\ pc # "down" /\ ~dsListLock.w) =>
          /\ Range(datasetList) \subseteq DOMAIN jobsT \cap DOMAIN statusT
          /\ \A k \in DOMAIN journal :
                journal[k].operation = migrateCopyOperation =>
                   ~(/\ journal[k].to \in Range(datasetList)
                     /\ Range(journal[k].from) \cap Range(datasetList) # {})
    /\ \A t \in Querying :
          /\ thr[t].dsList = datasetList
          /\ Range(datasetList) = DOMAIN jobsT
          /\ DOMAIN statusT = DOMAIN jobsT
          /\ ListedOnce
          /\ NoIDTwice(IDsOf(thr[t].jobs \o thr[t].read))
    /\ ret.op \in {"GetUnprocessed", "GetProcessed"} => NoIDTwice(IDsOf(ret.jobs))

\* A query has returned jobs of two datasets, one of them a compaction
\* destination.
C34_Witness ==
    /\ ret.op \in {"GetUnprocessed", "GetProcessed"}
    /\ \E d1, d2 \in Range(datasetList) :
          /\ Len(d1) = 2 /\ Len(d2) = 1
          /\ JobIDs(jobsT[d1]) \cap Range(IDsOf(ret.jobs)) # {}
          /\ JobIDs(jobsT[d2]) \cap Range(IDsOf(ret.jobs)) # {}

\* ---------------------------------------------------------------- C35
\* The positions of the level-1 datasets of the in-memory list.
Level1Positions == {i \in 1..Len(datasetList) : Len(datasetList[i]) = 2}

\* C35: without a crash, the in-memory list always holds at most one level-1
\* dataset, and if it holds one it is its first element; every other element
\* is a level-0 dataset and their indices are consecutive integers.
C35_OneLevel1DatasetFirst ==
    /\ Cardinality(Level1Positions) <= 1
    /\ Level1Positions \subseteq {1}
    /\ \A i \in 1..Len(datasetList) : i \notin Level1Positions => Len(datasetList[i]) = 1
    /\ \A i \in 1..(Len(datasetList) - 1) :
          {i, i + 1} \cap Level1Positions = {} =>
             datasetList[i + 1][1] = datasetList[i][1] + 1

\* A list of a level-1 dataset of the second generation followed by two
\* level-0 datasets, and the loop back in its sleep.
C35_Witness ==
    /\ pc = "sleep"
    /\ Len(datasetList) >= 3
    /\ Len(datasetList[1]) = 2
    /\ datasetList[1][2] = 2

\* ---------------------------------------------------------------- C36
\* C36: UpdateJobStatus with an empty status list returns without a failed
\* assertion or a panic and appends no status row, whether the catalog is one
\* dataset with an empty range list or several datasets with ranges.
C36_EmptyUpdateReturns ==
    [][(ret'.op = "UpdateJobStatus" /\ Len(ret'.statusList) = 0) =>
          /\ panic' = ""
          /\ statusT' = statusT
      ]_vars

\* ---------------------------------------------------------------- C37
\* The states of the database that a crash during a Setup can leave: no
\* journal table, a journal table and no dataset, or a journal whose only
\* entry is the ADD_DS of the first dataset, not done.
CrashedInSetup ==
    /\ pc = "down" /\ panic = ""
    /\ \/ ~journalTable
       \/ journalTable /\ DOMAIN jobsT = {} /\ DOMAIN statusT = {} /\ OpenRows = {}
       \/ /\ journalTable /\ Len(journal) = 1
          /\ journal[1].operation = addDSOperation /\ ~journal[1].done
          /\ journal[1].to = <<1>>

\* The step of a Setup with clearAll = false.
SetupStep == pc = "down" /\ pc' # "delJournal" /\ panic' # "dropAllDS"

\* C37: from every state of the database that a crash during an earlier Setup
\* can leave, Setup with clearAll = false completes with at least one dataset
\* in the list; it neither creates a journal table that exists nor reads one
\* that does not exist.
C37_SetupCompletesAfterSetupCrash ==
    [][(CrashedInSetup /\ SetupStep) =>
          /\ panic' = ""
          /\ pc' = "sleep"
          /\ Len(datasetList') >= 1
      ]_vars

====
